---- MODULE Spec2Model ----
(***************************************************************************)
(* v.in.ogr (vector/v.in.ogr/main.c): the feature stream iterator          *)
(* (OGR_iterator_init, OGR_iterator_reset, ogr_getnextfeature) and the     *)
(* polygon import pipeline of main(): census pass, import pass, boundary   *)
(* cleaning, centroid records, reattachment pass.                          *)
(***************************************************************************)
EXTENDS Integers, Sequences, FiniteSets, TLC

\* ------------------------------------------------------------------------
\* Bounds of the model
\* ------------------------------------------------------------------------
\* layers available in the data source (navailable_layers)
NAvail == 2
\* features in the data source, iterator specification
MaxFeat == 3
\* features in the data source, import run
MaxFeatMain == 2
\* modifications one Topology Engine operation reports
MaxModif == 1
\* iterations of the small-angles loop that are counted
MaxRounds == 2
\* areas the Topology Engine builds
MaxAreas == 2
\* records parsed per chunk by a GDAL 1.x interleaved data source
ChunkSize == 2

\* ------------------------------------------------------------------------
\* Handles
\* ------------------------------------------------------------------------
\* a NULL OGRFeatureH; features are named by their position in the stream
NULL == 0
\* a NULL OGRLayerH, and the "no layer" value -1 of requested_layer
NOLAYER == -1

VARIABLES
    stream,             \* the data source: features in physical order
    gdal22,             \* build: GDAL_VERSION_NUM >= 2020000
    poSpatialFilter,    \* main(): spatial filter geometry per layer, or none
    attr_filter,        \* main(): where clause given
    Ogr_ds,             \* the open data source: filters and read cursors
    OGR_iter,           \* struct OGR_iterator
    call,               \* the last ogr_getnextfeature call and what it did
    out,                \* features returned since the layer was requested
    pat,                \* progress through the requests 0, 1, 0
    Ref_ds,             \* the same data read through independent cursors
    Ref_iter,           \* the iterator over Ref_ds
    refcall,            \* the last call on Ref_iter
    refout,             \* features Ref_iter returned since the request
    layers,             \* main(): indexes of the layers to import
    pc,                 \* main(): the statement to run next
    ogr_interleaved_reading,    \* main(): the driver needs interleaved reading
    no_clean,           \* flag.no_clean->answer
    typeB,              \* type & GV_BOUNDARY
    snap,               \* the snap option
    layer,              \* main(): the loop index over the imported layers
    cat,                \* main(): the category of the current feature
    n_polygon_boundaries,
    use_tmp_vect,
    Out,                \* the map geom() writes to: "Map" or "Tmp"
    Map,                \* the output map: its state and its primitives
    Tmp,                \* the temporary map: its state and its primitives
    last_op,            \* the last Topology Engine operation on Tmp
    nmodif,
    rounds,             \* iterations of the small-angles loop so far
    cleaned,            \* the cleaning block was entered
    ncentr,
    centr,              \* main(): the loop index over the areas
    Centr,              \* the CENTR array
    si,                 \* the spatial index: items with their boxes
    n_overlaps,
    n_nocat,
    total_area,         \* the areas whose size was added to total_area
    overlap_area,       \* ... to overlap_area
    nocat_area,         \* ... to nocat_area
    pt_ret,             \* what Vect_get_point_in_area returned, area by area
    heap,               \* what is read from memory that was never written
    srs,                \* the spatial reference of each layer
    srs_ret,            \* what cmp_layer_srs returned
    extent,             \* what OGR_L_GetExtent reports of each layer
    use_region,         \* flag.region
    spat,               \* param.spat: the answers of the spatial option
    cur_wind,           \* the current region
    ptr_gt,             \* the outcome of comparing the addresses xmin > xmax
    Ogr_oRing,          \* the rings of poSpatialFilter
    have_spatial_filter,
    n_features,         \* the array of nlayers feature counts
    ogr_feature_count,
    nf_idx,             \* the indexes n_features was read or written at
    n_polygons,         \* the polygons geom() has imported
    est,                \* what the test for topological errors reported
    db_err,             \* where the key column or the database fails
    dsn_ok,             \* the data source can be opened
    layer_opt,          \* the layer option: the names asked for
    filter_ok,          \* per layer: the where clause is accepted
    rings,              \* the rings of each polygon of the data source
    bbox,               \* main(): xmin, ymin, xmax, ymax after the filters
    area_size,
    split_distance,
    key,                \* the key option: "none", "field" or "fid"
    attr,               \* the FID and the key field value of each feature
    key_idx,            \* main(): key_idx[] of the imported layers
    icat,               \* the category of the row the import pass inserted
    rcat,               \* the category the reattachment pass gave
    trav                \* the requests made to the iterator, run by run

itervars == <<stream, gdal22, poSpatialFilter, attr_filter, Ogr_ds, OGR_iter,
              call, out, pat, Ref_ds, Ref_iter, refcall, refout, layers>>

mainvars == <<pc, ogr_interleaved_reading, no_clean, typeB, snap, layer, cat,
              n_polygon_boundaries, use_tmp_vect, Out, Map, Tmp, last_op,
              nmodif, rounds, cleaned, ncentr, centr, Centr, si, n_overlaps,
              n_nocat, total_area, overlap_area, nocat_area, pt_ret, heap, srs, srs_ret, extent, use_region, spat, cur_wind, ptr_gt, Ogr_oRing, have_spatial_filter, n_features, ogr_feature_count, nf_idx, n_polygons, est, db_err, dsn_ok, layer_opt, filter_ok, rings, bbox, area_size, split_distance, key, attr, key_idx, icat, rcat, trav>>

vars == <<itervars, mainvars>>

Layers == 0 .. (NAvail - 1)

\* doubles: a number, or the expression that computes it
Num(v) == [op |-> "num", v |-> v]

\* sqrt() of a number
Sqrt(a) == [op |-> "sqrt", sq |-> a]

\* log() of a number
Log(n) == [op |-> "log", lg |-> n]

\* the quotient of two doubles
Div(a, b) == [op |-> "div", num |-> a, den |-> b]

\* x > 0 for a double: the root of a positive number is positive
Positive(x) ==
    IF x.op = "num" THEN x.v > 0 ELSE IF x.op = "sqrt" THEN x.sq > 0 ELSE FALSE

\* a sum of sizes of areas of the temporary map: 0.0, and the sum with the
\* size Vect_get_area_area gives for area c added; the sum is kept as the
\* list of the areas added
NoArea == <<>>

AddArea(sum, c) == Append(sum, c)

\* the key column is there and the database does what it is asked
NoDbErr == [at |-> "none", n |-> 0]

\* the test for topological errors has reported nothing; ncentr is the
\* value line 1771 assigns to the variable of that name
NoEst == [msgs |-> {}, ncentr |-> 0, min_snap |-> 0, max_snap |-> 0]

\* a selection box of positive width and height
UnitBox == [xmin |-> 0, ymin |-> 0, xmax |-> 1, ymax |-> 1]

\* lines 175-176: xmin = ymin = 1.0, xmax = ymax = 0.0, "no box"
NoBox == [xmin |-> 1, ymin |-> 1, xmax |-> 0, ymax |-> 0]

\* a layer without spatial reference: OGR_L_GetSpatialRef gives NULL
NoSrs == [kind |-> "null", proj |-> 0, info |-> "xy"]

\* OGR_L_GetExtent failed: have_ogr_extent is 0
NoExtent == [have |-> FALSE, xmin |-> 0, ymin |-> 0, xmax |-> 0, ymax |-> 0]

\* the spatial option is not given
NoSpat == <<>>

\* OGR_L_GetName / OGR_FD_GetName: distinct names of the layers of a source
LayerName(i) ==
    <<"points", "lines", "multilinestrings", "multipolygons",
      "other_relations", "layer5", "layer6">>[i + 1]

\* how a feature fares against the filters of its layer
SelKinds == {"in", "outbox", "nomatch"}

FeatureTypes == [layer : Layers, sel : SelKinds]

RECURSIVE SeqsUpTo(_, _)
SeqsUpTo(S, n) ==
    IF n = 0 THEN {<<>>}
    ELSE LET shorter == SeqsUpTo(S, n - 1)
         IN  shorter \cup {Append(q, x) : q \in {r \in shorter : Len(r) = n - 1}, x \in S}

\* ------------------------------------------------------------------------
\* The Feature Source (GDAL/OGR), as far as the iterator uses it
\* ------------------------------------------------------------------------
\* a data source as opened: no filters, all cursors at the start
OpenDs ==
    [spat |-> [l \in Layers |-> FALSE],
     attr |-> [l \in Layers |-> FALSE],
     lpos |-> [l \in Layers |-> 0],
     dpos |-> 0,
     buf  |-> [l \in Layers |-> <<>>]]

\* a feature is delivered iff it passes the filters installed on its layer
Passes(ds, i) ==
    LET f == stream[i]
    IN  /\ (ds.spat[f.layer] => f.sel # "outbox")
        /\ (ds.attr[f.layer] => f.sel # "nomatch")

OGR_L_SetSpatialFilter(ds, l, g) == [ds EXCEPT !.spat[l] = g]

OGR_L_SetAttributeFilter(ds, l, w) == [ds EXCEPT !.attr[l] = w]

OGR_L_ResetReading(ds, l) == [ds EXCEPT !.lpos[l] = 0]

GDALDatasetResetReading(ds) ==
    [ds EXCEPT !.dpos = 0, !.lpos = [l \in Layers |-> 0],
               !.buf = [l \in Layers |-> <<>>]]

Min(S) == CHOOSE x \in S : \A y \in S : x <= y

\* OGR_L_GetNextFeature on a layer with its own cursor
OGR_L_GetNextFeature(ds, l) ==
    LET cand == {i \in (ds.lpos[l] + 1) .. Len(stream) :
                    stream[i].layer = l /\ Passes(ds, i)}
    IN  IF cand = {}
        THEN [ds |-> [ds EXCEPT !.lpos[l] = Len(stream)], f |-> NULL]
        ELSE [ds |-> [ds EXCEPT !.lpos[l] = Min(cand)], f |-> Min(cand)]

\* GDALDatasetGetNextFeature: the next feature of the shared cursor and the
\* layer it belongs to
GDALDatasetGetNextFeature(ds) ==
    LET cand == {i \in (ds.dpos + 1) .. Len(stream) : Passes(ds, i)}
    IN  IF cand = {}
        THEN [ds |-> [ds EXCEPT !.dpos = Len(stream)], f |-> NULL,
              layer |-> NOLAYER]
        ELSE [ds |-> [ds EXCEPT !.dpos = Min(cand)], f |-> Min(cand),
              layer |-> stream[Min(cand)].layer]

\* GDAL 1.x with OGR_INTERLEAVED_READING=YES: the source parses the shared
\* stream chunk by chunk into per-layer buffers until a feature was added
RECURSIVE ParseNextChunk(_)
ParseNextChunk(ds) ==
    IF ds.dpos >= Len(stream) THEN ds
    ELSE LET hi  == IF ds.dpos + ChunkSize > Len(stream) THEN Len(stream)
                    ELSE ds.dpos + ChunkSize
             add(l) == SelectSeq([k \in 1 .. (hi - ds.dpos) |-> ds.dpos + k],
                                 LAMBDA i : stream[i].layer = l /\ Passes(ds, i))
             nds == [ds EXCEPT !.dpos = hi,
                               !.buf = [l \in Layers |-> ds.buf[l] \o add(l)]]
         IN  IF \E l \in Layers : nds.buf[l] # <<>> THEN nds
             ELSE ParseNextChunk(nds)

\* OGR_L_GetNextFeature on a layer of an interleaved GDAL 1.x source
OGR_L_GetNextFeature_Interleaved(ds, l) ==
    IF ds.buf[l] # <<>>
    THEN [ds |-> [ds EXCEPT !.buf[l] = Tail(ds.buf[l])], f |-> Head(ds.buf[l])]
    ELSE IF \E m \in Layers : m # l /\ ds.buf[m] # <<>>
    THEN [ds |-> ds, f |-> NULL]
    ELSE LET nds == ParseNextChunk(ds)
         IN  IF nds.buf[l] # <<>>
             THEN [ds |-> [nds EXCEPT !.buf[l] = Tail(nds.buf[l])],
                   f |-> Head(nds.buf[l])]
             ELSE [ds |-> nds, f |-> NULL]

\* ------------------------------------------------------------------------
\* struct OGR_iterator
\* ------------------------------------------------------------------------
\* what a call did to the data source, in order
Ev(op, arg) == [op |-> op, arg |-> arg]

OGR_iterator_init(nlayers, interleaved) ==
    [nlayers |-> nlayers,
     ogr_interleaved_reading |-> interleaved,
     requested_layer |-> -1,
     curr_layer |-> -1,
     Ogr_layer |-> NOLAYER,
     Ogr_featuredefn |-> NOLAYER,
     has_nonempty_layers |-> 0,
     done |-> 0]

\* OGR_iterator_reset: the new iterator, and the data source rewound by it
OGR_iterator_reset(it, ds) ==
    [it |-> [it EXCEPT !.requested_layer = -1, !.curr_layer = -1,
                       !.Ogr_layer = NOLAYER, !.has_nonempty_layers = 0,
                       !.done = 0],
     ds |-> IF gdal22 THEN GDALDatasetResetReading(ds) ELSE ds]

\* a variant that leaves the attribute filters installed
ClearFilters_SpatialOnly(ds, n) ==
    [ds EXCEPT !.spat = [l \in Layers |-> IF l < n THEN FALSE ELSE ds.spat[l]]]

\* the "clear filters" loop over all layers of the data source
ClearFilters(ds, n) ==
    [ds EXCEPT !.spat = [l \in Layers |-> IF l < n THEN FALSE ELSE ds.spat[l]],
               !.attr = [l \in Layers |-> IF l < n THEN FALSE ELSE ds.attr[l]]]

ClearLog(n) == [k \in 1 .. n |-> Ev("clear_filters", k - 1)]

\* a variant that installs the spatial filter only
InstallFilters_SpatialOnly(ds, lyr, filt, where) ==
    OGR_L_SetSpatialFilter(ds, lyr, filt)

\* the filters the caller hands over are installed on the requested layer
InstallFilters(ds, lyr, filt, where) ==
    OGR_L_SetAttributeFilter(OGR_L_SetSpatialFilter(ds, lyr, filt), lyr, where)

\* ogr_getnextfeature, the block run when another layer is requested
SwitchLayer(it, ds, lyr, filt, where) ==
    IF ~it.ogr_interleaved_reading
    THEN [it  |-> [it EXCEPT !.curr_layer = lyr, !.Ogr_layer = lyr,
                             !.Ogr_featuredefn = lyr,
                             !.requested_layer = lyr, !.done = 0],
          ds  |-> OGR_L_ResetReading(ds, lyr),
          log |-> <<Ev("rewind", lyr)>>]
    ELSE IF gdal22
    THEN [it  |-> [it EXCEPT !.Ogr_layer = lyr, !.Ogr_featuredefn = lyr,
                             !.requested_layer = lyr, !.done = 0],
          ds  |-> InstallFilters(
                      GDALDatasetResetReading(ClearFilters(ds, it.nlayers)),
                      lyr, filt, where),
          log |-> ClearLog(it.nlayers)
                  \o <<Ev("rewind", NOLAYER), Ev("set_filters", lyr)>>]
    ELSE \* the data source is destroyed and opened again: filters are lost
         [it  |-> [it EXCEPT !.curr_layer = 0, !.has_nonempty_layers = 0,
                             !.Ogr_layer = 0, !.Ogr_featuredefn = lyr,
                             !.requested_layer = lyr, !.done = 0],
          ds  |-> InstallFilters(OpenDs, lyr, filt, where),
          log |-> ClearLog(it.nlayers)
                  \o <<Ev("rewind", NOLAYER), Ev("set_filters", lyr)>>]

\* a variant that takes a feature of any layer for the requested one
NameMatches_AnyLayer(l, layer_name) == l # NOLAYER

\* the feature is of the requested layer (GDAL 2.2+: by layer name)
NameMatches(l, layer_name) == l # NOLAYER /\ LayerName(l) = layer_name

\* the fetch loop over the shared cursor, GDAL 2.2+
RECURSIVE FetchLoop22(_, _)
FetchLoop22(s, layer_name) ==
    LET r  == GDALDatasetGetNextFeature(s.ds)
        s1 == [s EXCEPT !.ds = r.ds, !.log = Append(@, Ev("fetch", r.f)),
                        !.nfetch = @ + 1]
    IN  IF r.f = NULL
        THEN [s1 EXCEPT !.it.Ogr_layer = NOLAYER, !.it.done = 1, !.ret = NULL]
        ELSE IF NameMatches(r.layer, layer_name)
        THEN [s1 EXCEPT !.it.Ogr_layer = r.layer, !.ret = r.f]
        ELSE FetchLoop22([s1 EXCEPT !.it.Ogr_layer = NOLAYER,
                                    !.log = Append(@, Ev("destroy", r.f))],
                         layer_name)

\* a variant that returns whatever the current layer yields
IsRequested_Any(curr_layer, lyr) == TRUE

\* the feature fetched from curr_layer is of the requested layer (GDAL 1.x)
IsRequested(curr_layer, lyr) == curr_layer = lyr

\* the round-robin fetch loop over the layers, GDAL 1.x
RECURSIVE FetchLoop1x(_, _)
FetchLoop1x(s, lyr) ==
    LET r  == OGR_L_GetNextFeature_Interleaved(s.ds, s.it.Ogr_layer)
        s1 == [s EXCEPT !.ds = r.ds, !.log = Append(@, Ev("fetch", r.f)),
                        !.nfetch = @ + 1, !.handles = @ \cup {s.it.Ogr_layer}]
    IN  IF r.f # NULL
        THEN IF ~IsRequested(s.it.curr_layer, lyr)
             THEN FetchLoop1x([s1 EXCEPT !.it.has_nonempty_layers = 1,
                                         !.log = Append(@, Ev("destroy", r.f))],
                              lyr)
             ELSE [s1 EXCEPT !.it.has_nonempty_layers = 1, !.ret = r.f]
        ELSE LET c == s.it.curr_layer + 1
             IN  IF c = s.it.nlayers
                 THEN IF s.it.has_nonempty_layers = 0
                      THEN [s1 EXCEPT !.it.curr_layer = c,
                                      !.it.Ogr_layer = NOLAYER,
                                      !.it.done = 1, !.ret = NULL]
                      ELSE FetchLoop1x([s1 EXCEPT !.it.curr_layer = 0,
                                                  !.it.has_nonempty_layers = 0,
                                                  !.it.Ogr_layer = 0,
                                                  !.it.Ogr_featuredefn = 0,
                                                  !.npass = @ + 1],
                                       lyr)
                 ELSE FetchLoop1x([s1 EXCEPT !.it.curr_layer = c,
                                             !.it.Ogr_layer = c,
                                             !.it.Ogr_featuredefn = c],
                                  lyr)

\* a variant that does not note the end of the layer
FetchOwn_NoDone(s) ==
    LET r  == OGR_L_GetNextFeature(s.ds, s.it.Ogr_layer)
    IN  [s EXCEPT !.ds = r.ds, !.log = Append(@, Ev("fetch", r.f)),
                  !.nfetch = @ + 1, !.ret = r.f,
                  !.handles = @ \cup {s.it.Ogr_layer}]

\* the fetch from the layer's own cursor, independent-cursor mode
FetchOwn(s) ==
    LET r  == OGR_L_GetNextFeature(s.ds, s.it.Ogr_layer)
        s1 == [s EXCEPT !.ds = r.ds, !.log = Append(@, Ev("fetch", r.f)),
                        !.nfetch = @ + 1, !.ret = r.f,
                        !.handles = @ \cup {s.it.Ogr_layer}]
    IN  IF r.f = NULL
        THEN [s1 EXCEPT !.it.Ogr_layer = NOLAYER, !.it.done = 1]
        ELSE s1

\* ogr_getnextfeature(OGR_iter, layer, layer_name, poSpatialFilter,
\* attr_filter): the iterator and data source after the call, the feature
\* returned (ret), and what the call did (switched, log, nfetch, npass, and
\* handles, the values of OGR_iter->Ogr_layer it read a feature from)
ogr_getnextfeature(it, ds, lyr, layer_name, filt, where) ==
    LET switched == it.requested_layer # lyr
        sw == IF switched THEN SwitchLayer(it, ds, lyr, filt, where)
              ELSE [it |-> it, ds |-> ds, log |-> <<>>]
        s0 == [it |-> sw.it, ds |-> sw.ds, log |-> sw.log, ret |-> NULL,
               layer |-> lyr, switched |-> switched, nfetch |-> 0,
               npass |-> 0, pre |-> ds, start |-> sw.ds, handles |-> {}]
    IN  IF s0.it.done = 1 THEN s0
        ELSE IF ~s0.it.ogr_interleaved_reading THEN FetchOwn(s0)
        ELSE IF gdal22 THEN FetchLoop22(s0, layer_name)
        ELSE FetchLoop1x(s0, lyr)

\* ------------------------------------------------------------------------
\* main(): the filters are installed on the imported layers (lines 859-873)
\* ------------------------------------------------------------------------
nlayers == Len(layers)

\* the C arrays layers[], layer_names[], poSpatialFilter[] are indexed from 0
layer_id(k) == layers[k + 1]

layer_names(k) == LayerName(layers[k + 1])

RECURSIVE SetLayerFilters(_, _)
SetLayerFilters(ds, k) ==
    IF k = nlayers THEN ds
    ELSE SetLayerFilters(
             OGR_L_SetAttributeFilter(
                 OGR_L_SetSpatialFilter(ds, layer_id(k), poSpatialFilter[k + 1]),
                 layer_id(k), attr_filter),
             k + 1)

\* line 863: create_spatial_filter made a filter, or a where clause is given
FiltersGiven == (\E k \in 1 .. nlayers : poSpatialFilter[k]) \/ attr_filter

MainSetFilters(ds) ==
    IF FiltersGiven
    THEN SetLayerFilters(ds, 0)
    ELSE ds

\* a variant that never looks at what OGR_L_SetAttributeFilter returns
AttrFilterAccepted_Unchecked(l) == TRUE

\* line 869: OGR_L_SetAttributeFilter returns OGRERR_NONE; without a where
\* clause the filter is cleared, which never fails
AttrFilterAccepted(l) == ~attr_filter \/ filter_ok[l]

\* lines 866-871: the layers whose filters end the run
Rejecting == {k \in 0 .. (nlayers - 1) : ~AttrFilterAccepted(layer_id(k))}

\* the first of them: the loop stops there
FirstRejecting == CHOOSE k \in Rejecting : \A j \in Rejecting : k <= j

\* lines 866-868: the filters set before G_fatal_error is called for layer n
RECURSIVE SetLayerFiltersUntil(_, _, _)
SetLayerFiltersUntil(ds, k, n) ==
    IF k = n THEN OGR_L_SetSpatialFilter(ds, layer_id(k), poSpatialFilter[k + 1])
    ELSE SetLayerFiltersUntil(
             OGR_L_SetAttributeFilter(
                 OGR_L_SetSpatialFilter(ds, layer_id(k), poSpatialFilter[k + 1]),
                 layer_id(k), attr_filter),
             k + 1, n)

\* ------------------------------------------------------------------------
\* The iterator under an arbitrary client
\* ------------------------------------------------------------------------
NoCall ==
    [made |-> FALSE, layer |-> NOLAYER, ret |-> NULL, switched |-> FALSE,
     log |-> <<>>, nfetch |-> 0, npass |-> 0, pre |-> OpenDs, start |-> OpenDs,
     handles |-> {}]

CallOf(r) ==
    [made |-> TRUE, layer |-> r.layer, ret |-> r.ret, switched |-> r.switched,
     log |-> r.log, nfetch |-> r.nfetch, npass |-> r.npass, pre |-> r.pre,
     start |-> r.start, handles |-> r.handles]

\* how far the requests layer 0, layer 1, layer 0 have come: p requests of
\* the pattern were made, and layer l is requested next
PatNext(p, l) ==
    IF p = 0 /\ l = 0 THEN 1
    ELSE IF p = 1 /\ l = 1 THEN 2
    ELSE IF p = 2 /\ l = 0 THEN 3
    ELSE IF l = 0 THEN 1
    ELSE 0

\* the features a call adds to those returned since the request
Returned(sofar, r) ==
    (IF r.switched THEN <<>> ELSE sofar)
    \o (IF r.ret # NULL THEN <<r.ret>> ELSE <<>>)

AllLayers == [k \in 1 .. NAvail |-> k - 1]

\* a map that was not opened
NoMap == [state |-> "none", lines |-> <<>>]

\* main() is not running: the iterator is driven by another client
MainIdle ==
    /\ pc = "idle"
    /\ ogr_interleaved_reading = TRUE
    /\ no_clean = FALSE
    /\ typeB = FALSE
    /\ snap = -1
    /\ layer = 0
    /\ cat = 0
    /\ n_polygon_boundaries = 0
    /\ use_tmp_vect = FALSE
    /\ Out = "Map"
    /\ Map = NoMap
    /\ Tmp = NoMap
    /\ last_op = "none"
    /\ nmodif = 0
    /\ rounds = 0
    /\ cleaned = FALSE
    /\ ncentr = 0
    /\ centr = 0
    /\ Centr = <<>>
    /\ si = {}
    /\ n_overlaps = 0
    /\ n_nocat = 0
    /\ total_area = NoArea
    /\ overlap_area = NoArea
    /\ nocat_area = NoArea
    /\ pt_ret = <<>>
    /\ heap = 0
    /\ srs = [l \in Layers |-> NoSrs]
    /\ srs_ret = 0
    /\ extent = [l \in Layers |-> NoExtent]
    /\ use_region = FALSE
    /\ spat = NoSpat
    /\ cur_wind = UnitBox
    /\ ptr_gt = FALSE
    /\ Ogr_oRing = <<>>
    /\ have_spatial_filter = FALSE
    /\ n_features = <<>>
    /\ ogr_feature_count = 0
    /\ nf_idx = {}
    /\ n_polygons = 0
    /\ est = NoEst
    /\ db_err = NoDbErr
    /\ dsn_ok = TRUE
    /\ layer_opt = [k \in 1 .. Len(layers) |-> LayerName(layers[k])]
    /\ filter_ok = [l \in Layers |-> TRUE]
    /\ rings = 1
    /\ bbox = UnitBox
    /\ area_size = Num(0)
    /\ split_distance = Num(0)
    /\ key = "none"
    /\ attr = [i \in 1 .. Len(stream) |-> [fid |-> i, kv |-> 0]]
    /\ key_idx = <<>>
    /\ icat = {}
    /\ rcat = {}
    /\ trav = <<>>

InitIter ==
    /\ stream \in SeqsUpTo(FeatureTypes, MaxFeat)
    /\ gdal22 \in BOOLEAN
    /\ layers = AllLayers
    /\ poSpatialFilter \in [1 .. NAvail -> BOOLEAN]
    /\ attr_filter \in BOOLEAN
    /\ Ogr_ds = MainSetFilters(OpenDs)
    /\ OGR_iter = OGR_iterator_init(NAvail, TRUE)
    /\ Ref_ds = MainSetFilters(OpenDs)
    /\ Ref_iter = OGR_iterator_init(NAvail, FALSE)
    /\ call = NoCall
    /\ refcall = NoCall
    /\ out = <<>>
    /\ refout = <<>>
    /\ pat = 0
    /\ MainIdle

\* the client calls OGR_iterator_reset
IterReset ==
    /\ LET r == OGR_iterator_reset(OGR_iter, Ogr_ds)
           q == OGR_iterator_reset(Ref_iter, Ref_ds)
       IN  /\ OGR_iter' = r.it
           /\ Ogr_ds' = r.ds
           /\ Ref_iter' = q.it
           /\ Ref_ds' = q.ds
    /\ call' = NoCall
    /\ refcall' = NoCall
    /\ out' = <<>>
    /\ refout' = <<>>
    /\ pat' = 0
    /\ UNCHANGED <<stream, gdal22, poSpatialFilter, attr_filter, layers>>
    /\ UNCHANGED mainvars

\* a call of ogr_getnextfeature for the k-th imported layer, made on the
\* iterator and on the independent-cursor iterator over the same data
CallStep(k) ==
    /\ LET r == ogr_getnextfeature(OGR_iter, Ogr_ds, layer_id(k), layer_names(k),
                                   poSpatialFilter[k + 1], attr_filter)
           q == ogr_getnextfeature(Ref_iter, Ref_ds, layer_id(k), layer_names(k),
                                   poSpatialFilter[k + 1], attr_filter)
       IN  /\ OGR_iter' = r.it
           /\ Ogr_ds' = r.ds
           /\ call' = CallOf(r)
           /\ Ref_iter' = q.it
           /\ Ref_ds' = q.ds
           /\ refcall' = CallOf(q)
           /\ out' = Returned(out, r)
           /\ refout' = Returned(refout, q)
    /\ UNCHANGED <<stream, gdal22, poSpatialFilter, attr_filter, layers>>
    /\ UNCHANGED mainvars

\* the client calls ogr_getnextfeature for the k-th imported layer
IterNext(k) == CallStep(k) /\ UNCHANGED pat

NextIter ==
    \/ IterReset
    \/ \E k \in 0 .. (NAvail - 1) : IterNext(k)

SpecIter == InitIter /\ [][NextIter]_vars

\* the client requests layer 0, then layer 1, then layer 0 again, each any
\* number of times
EquivNext(k) ==
    /\ \/ k = 0 /\ pat \in {0, 1, 2, 3}
       \/ k = 1 /\ pat \in {1, 2}
    /\ CallStep(k)
    /\ pat' = IF OGR_iter.requested_layer # layer_id(k)
              THEN PatNext(pat, layer_id(k)) ELSE pat

NextEquiv == \E k \in 0 .. 1 : EquivNext(k)

SpecEquiv == InitIter /\ [][NextEquiv]_vars

\* ------------------------------------------------------------------------
\* Properties of the iterator
\* ------------------------------------------------------------------------
IsPrefix(a, b) == Len(a) <= Len(b) /\ SubSeq(b, 1, Len(a)) = a

\* the position in the import list of layer l
KOf(l) == CHOOSE k \in 0 .. (nlayers - 1) : layer_id(k) = l

\* the caller's filters for the k-th imported layer accept feature i
CallerAccepts(k, i) ==
    /\ (poSpatialFilter[k + 1] => stream[i].sel # "outbox")
    /\ (attr_filter => stream[i].sel # "nomatch")

\* the features of the k-th imported layer that pass its filters, in source
\* order
Expected(k) ==
    SelectSeq([i \in 1 .. Len(stream) |-> i],
              LAMBDA i : stream[i].layer = layer_id(k) /\ CallerAccepts(k, i))

IterContract(it, o, c) ==
    it.requested_layer # -1 =>
        LET e == Expected(KOf(it.requested_layer))
        IN  /\ IsPrefix(o, e)
            /\ (it.done = 1 => o = e)
            /\ (c.made /\ c.ret = NULL => it.done = 1)
            /\ (c.made /\ c.ret # NULL => stream[c.ret].layer = c.layer)

\* C1: after a reset, the calls for one requested layer return exactly the
\* features of that layer that pass its filters, each once and in source
\* order, then end; never a feature of another layer. In interleaved mode
\* (OGR_iter) and in independent-cursor mode (Ref_iter).
C1_IteratorContract ==
    /\ IterContract(OGR_iter, out, call)
    /\ IterContract(Ref_iter, refout, refcall)

\* C1 witness: a layer was drained in both modes; it returned a feature,
\* a feature of it was filtered out and the source holds another layer's
C1_Witness ==
    /\ OGR_iter.done = 1
    /\ Ref_iter.done = 1
    /\ Len(out) >= 1
    /\ \E i \in 1 .. Len(stream) : stream[i].layer # OGR_iter.requested_layer
    /\ \E i \in 1 .. Len(stream) :
           /\ stream[i].layer = OGR_iter.requested_layer
           /\ ~CallerAccepts(KOf(OGR_iter.requested_layer), i)

FirstOrNull(q) == IF q = <<>> THEN NULL ELSE Head(q)

\* C2: requesting layer 0, then layer 1, then layer 0 again, every call
\* returns the same feature in interleaved mode as in independent-cursor
\* mode, and the second request for layer 0 starts at layer 0's first
\* feature in both.
C2_SameSequenceBothModes ==
    call.made =>
        /\ call.ret = refcall.ret
        /\ out = refout
        /\ (pat = 3 /\ call.switched =>
               /\ call.ret = FirstOrNull(Expected(0))
               /\ refcall.ret = FirstOrNull(Expected(0)))

\* C2 witness: after calls for layer 0 and calls that read layer 1, the
\* second request for layer 0 has just returned a feature
C2_Witness ==
    /\ pat = 3
    /\ call.switched
    /\ call.ret # NULL
    /\ call.pre.dpos > 0
    /\ Ref_ds.lpos[1] > 0

\* C3: in interleaved mode a call for another layer than the last one (or
\* the first call after init or reset) clears the filters of every layer,
\* rewinds the shared cursor and installs the caller's filters on the
\* requested layer only, all before the first fetch; a call for the same
\* layer does none of these.
C3_SwitchResetsFilters ==
    call.made =>
        IF call.switched
        THEN /\ \A l \in Layers :
                   /\ call.start.spat[l]
                         = (l = call.layer /\ poSpatialFilter[KOf(call.layer) + 1])
                   /\ call.start.attr[l] = (l = call.layer /\ attr_filter)
             /\ call.start.dpos = 0
             /\ \A l \in Layers : call.start.buf[l] = <<>>
             /\ Len(call.log) >= NAvail + 2
             /\ SubSeq(call.log, 1, NAvail + 2)
                   = ClearLog(NAvail)
                     \o <<Ev("rewind", NOLAYER), Ev("set_filters", call.layer)>>
             /\ \A j \in (NAvail + 3) .. Len(call.log) :
                   call.log[j].op \in {"fetch", "destroy"}
        ELSE /\ call.start = call.pre
             /\ \A j \in 1 .. Len(call.log) :
                   call.log[j].op \in {"fetch", "destroy"}

\* C3 witness: a switching call found filters on another layer and an
\* advanced cursor, and fetched
C3_Witness ==
    /\ call.made
    /\ call.switched
    /\ call.pre.dpos > 0
    /\ \E l \in Layers : l # call.layer /\ call.pre.spat[l] /\ call.pre.attr[l]
    /\ call.nfetch > 0

\* the features a call fetched and the ones it destroyed
Fetched(c) ==
    {c.log[j].arg : j \in {n \in 1 .. Len(c.log) :
                              c.log[n].op = "fetch" /\ c.log[n].arg # NULL}}

Destroyed(c) ==
    {c.log[j].arg : j \in {n \in 1 .. Len(c.log) : c.log[n].op = "destroy"}}

\* the fetches of a call, in order
Fetches(c) == SelectSeq(c.log, LAMBDA e : e.op = "fetch")

\* C4: in interleaved mode every call ends after a bounded number of
\* fetches; it returns end only with the shared cursor exhausted (GDAL 1.x:
\* after a full pass over all layers without a feature); every fetched
\* feature of another layer is destroyed and not returned.
C4_InterleavedFetchLoop ==
    call.made =>
        /\ call.nfetch <= Len(stream) + NAvail * (Len(stream) + 2)
        /\ (gdal22 => call.nfetch <= Len(stream) - call.start.dpos + 1)
        /\ (call.ret = NULL =>
               /\ Ogr_ds.dpos = Len(stream)
               /\ \A l \in Layers : Ogr_ds.buf[l] = <<>>
               /\ (~gdal22 /\ call.nfetch > 0 =>
                      /\ call.nfetch >= NAvail
                      /\ \A j \in (call.nfetch - NAvail + 1) .. call.nfetch :
                             Fetches(call)[j].arg = NULL))
        /\ Destroyed(call) = {i \in Fetched(call) : stream[i].layer # call.layer}
        /\ call.ret \notin Destroyed(call)
        /\ (call.ret # NULL => stream[call.ret].layer = call.layer)

\* C4 witness: a call went through features of other layers, destroyed
\* them and reached end
C4_Witness ==
    /\ call.made
    /\ call.ret = NULL
    /\ Cardinality(Destroyed(call)) >= 2


\* ------------------------------------------------------------------------
\* main(): one import run
\* ------------------------------------------------------------------------
Geoms == {"none", "point", "polygon"}

MainFeatureTypes == [layer : Layers, sel : {"in"}, geom : Geoms]

\* the lists of distinct layers to import
ImportLists ==
    {q \in SeqsUpTo(Layers, NAvail) :
        q # <<>> /\ \A a, b \in 1 .. Len(q) : a # b => q[a] # q[b]}

\* the values of the snap option: -1 is "no snapping"
SnapValues == {-1, 1}

\* the points Vect_get_point_in_area can report
AreaPoints == {<<1, 2>>, <<2, 1>>}

\* the state after the list of layers to import was made
Init ==
    /\ stream \in SeqsUpTo(MainFeatureTypes, MaxFeatMain)
    /\ gdal22 \in BOOLEAN
    /\ ogr_interleaved_reading \in BOOLEAN
    /\ layers \in ImportLists
    /\ poSpatialFilter = [k \in 1 .. Len(layers) |-> FALSE]
    /\ attr_filter = FALSE
    /\ no_clean \in BOOLEAN
    /\ typeB \in BOOLEAN
    /\ snap \in SnapValues
    /\ Ogr_ds = OpenDs
    /\ OGR_iter = OGR_iterator_init(0, FALSE)
    /\ call = NoCall
    /\ refcall = NoCall
    /\ out = <<>>
    /\ refout = <<>>
    /\ pat = 0
    /\ Ref_ds = OpenDs
    /\ Ref_iter = OGR_iterator_init(0, FALSE)
    /\ pc = "filters"
    /\ layer = 0
    /\ cat = 0
    /\ n_polygon_boundaries = 0
    /\ use_tmp_vect = FALSE
    /\ Out = "Map"
    /\ Map = NoMap
    /\ Tmp = NoMap
    /\ last_op = "none"
    /\ nmodif = 0
    /\ rounds = 0
    /\ cleaned = FALSE
    /\ ncentr = 0
    /\ centr = 0
    /\ Centr = <<>>
    /\ si = {}
    /\ n_overlaps = 0
    /\ n_nocat = 0
    /\ total_area = NoArea
    /\ overlap_area = NoArea
    /\ nocat_area = NoArea
    /\ pt_ret = <<>>
    /\ heap = 0
    /\ srs = [l \in Layers |-> NoSrs]
    /\ srs_ret = 0
    /\ extent = [l \in Layers |-> NoExtent]
    /\ use_region = FALSE
    /\ spat = NoSpat
    /\ cur_wind = UnitBox
    /\ ptr_gt = FALSE
    /\ Ogr_oRing = <<>>
    /\ have_spatial_filter = FALSE
    /\ n_features = <<>>
    /\ ogr_feature_count = 0
    /\ nf_idx = {}
    /\ n_polygons = 0
    /\ est = NoEst
    /\ db_err = NoDbErr
    /\ dsn_ok = TRUE
    /\ layer_opt = [k \in 1 .. Len(layers) |-> LayerName(layers[k])]
    /\ filter_ok = [l \in Layers |-> TRUE]
    /\ rings = 1
    /\ bbox = UnitBox
    /\ area_size = Num(0)
    /\ split_distance = Num(0)
    /\ key = "none"
    /\ attr = [i \in 1 .. Len(stream) |-> [fid |-> i, kv |-> 0]]
    /\ key_idx = <<>>
    /\ icat = {}
    /\ rcat = {}
    /\ trav = <<>>

\* bounds of the key field values and of the feature ids
MaxKey == 2

MaxFid == 2

\* the coordinates of the selection box
MaxCoord == 2

\* the powers of ten the snapping thresholds are taken from
MaxExp == 2

RECURSIVE Pow(_, _)
Pow(b, e) == IF e = 0 THEN 1 ELSE b * Pow(b, e - 1)

Pow10 == {Pow(10, e) : e \in 0 .. MaxExp}

\* the key option: none, an integer attribute field, the FID column
KeyModes == {"none", "field", "fid"}

\* the attributes the features of a stream can have under a key option:
\* key field values may repeat, feature ids are unique within a layer
AttrChoices(st, k) ==
    IF k = "field"
    THEN {a \in [1 .. Len(st) -> [fid : {0}, kv : 1 .. MaxKey]] : TRUE}
    ELSE IF k = "fid"
    THEN {a \in [1 .. Len(st) -> [fid : 0 .. MaxFid, kv : {0}]] :
             \A i, j \in 1 .. Len(st) :
                 (i # j /\ st[i].layer = st[j].layer) => a[i].fid # a[j].fid}
    ELSE {[i \in 1 .. Len(st) |-> [fid |-> i, kv |-> 0]]}

\* the start of main() with a key option, reading with independent cursors
InitKeys ==
    /\ stream \in SeqsUpTo(MainFeatureTypes, MaxFeatMain)
    /\ gdal22 = TRUE
    /\ ogr_interleaved_reading = FALSE
    /\ layers \in ImportLists
    /\ no_clean \in BOOLEAN
    /\ typeB = FALSE
    /\ snap = -1
    /\ key \in KeyModes
    /\ attr \in AttrChoices(stream, key)
    /\ poSpatialFilter = [k \in 1 .. Len(layers) |-> FALSE]
    /\ attr_filter = FALSE
    /\ Ogr_ds = OpenDs
    /\ OGR_iter = OGR_iterator_init(0, FALSE)
    /\ call = NoCall
    /\ refcall = NoCall
    /\ out = <<>>
    /\ refout = <<>>
    /\ pat = 0
    /\ Ref_ds = OpenDs
    /\ Ref_iter = OGR_iterator_init(0, FALSE)
    /\ pc = "filters"
    /\ layer = 0
    /\ cat = 0
    /\ n_polygon_boundaries = 0
    /\ use_tmp_vect = FALSE
    /\ Out = "Map"
    /\ Map = NoMap
    /\ Tmp = NoMap
    /\ last_op = "none"
    /\ nmodif = 0
    /\ rounds = 0
    /\ cleaned = FALSE
    /\ ncentr = 0
    /\ centr = 0
    /\ Centr = <<>>
    /\ si = {}
    /\ n_overlaps = 0
    /\ n_nocat = 0
    /\ total_area = NoArea
    /\ overlap_area = NoArea
    /\ nocat_area = NoArea
    /\ pt_ret = <<>>
    /\ heap = 0
    /\ srs = [l \in Layers |-> NoSrs]
    /\ srs_ret = 0
    /\ extent = [l \in Layers |-> NoExtent]
    /\ use_region = FALSE
    /\ spat = NoSpat
    /\ cur_wind = UnitBox
    /\ ptr_gt = FALSE
    /\ Ogr_oRing = <<>>
    /\ have_spatial_filter = FALSE
    /\ n_features = <<>>
    /\ ogr_feature_count = 0
    /\ nf_idx = {}
    /\ n_polygons = 0
    /\ est = NoEst
    /\ db_err = NoDbErr
    /\ dsn_ok = TRUE
    /\ layer_opt = [k \in 1 .. Len(layers) |-> LayerName(layers[k])]
    /\ filter_ok = [l \in Layers |-> TRUE]
    /\ rings = 1
    /\ bbox = UnitBox
    /\ area_size = Num(0)
    /\ split_distance = Num(0)
    /\ key_idx = <<>>
    /\ icat = {}
    /\ rcat = {}
    /\ trav = <<>>

\* the layer extents, the region and the spatial option, and the filters
\* create_spatial_filter makes of them
FilterVars == <<extent, use_region, spat, cur_wind, ptr_gt, Ogr_oRing, have_spatial_filter>>

\* what main() never assigns after the options were parsed
Inputs == <<stream, gdal22, ogr_interleaved_reading, layers, poSpatialFilter,
            attr_filter, no_clean, typeB, snap, key, attr, rings, bbox, dsn_ok, layer_opt, filter_ok,
            db_err, heap, FilterVars, srs, srs_ret>>

\* the feature counts of the layers
CountVars == <<n_features, ogr_feature_count, nf_idx>>

\* the count of imported polygons and the report of the test at the end,
\* and the feature counts
EstVars == <<n_polygons, est, CountVars>>

\* the boundary splitting distance and what it is computed from
SplitVars == <<area_size, split_distance>>

\* the key columns and the categories given in the two passes
KeyVars == <<key_idx, icat, rcat>>

\* the sums of the sizes of areas
AreaVars == <<total_area, overlap_area, nocat_area>>

\* the centroid records and what is counted over them
CentrVars == <<ncentr, centr, Centr, si, n_overlaps, n_nocat, pt_ret, AreaVars>>

\* the iterator of the other client
RefVars == <<call, refcall, out, refout, pat, Ref_ds, Ref_iter>>

\* a request to the iterator is noted once per run of equal requests
Note(t, e) == IF t # <<>> /\ t[Len(t)] = e THEN t ELSE Append(t, e)

Req(k, end) == [k |-> k, end |-> end]

ResetMark == [k |-> -1, end |-> FALSE]

\* a variant that leaves a layer after its first request
LayerDrained_AfterOne(f) == TRUE

\* the while condition of the three feature loops: the layer is left when
\* ogr_getnextfeature returns NULL
LayerDrained(f) == f = NULL

\* poly_count(): the polygon rings (and, with line2boundary, the lines) of a
\* geometry are added to n_polygon_boundaries
poly_count(g, line2boundary) == IF g = "polygon" THEN rings ELSE 0

\* a variant that counts polygon boundaries also with the no-clean flag
CensusCount_Always(n, g) == n + poly_count(g, typeB)

\* the census counts polygon boundaries only when cleaning is requested
CensusCount(n, g) == IF ~no_clean THEN n + poly_count(g, typeB) ELSE n

\* geom(): an imported polygon is counted in n_polygons
polygons(g) == IF g = "polygon" THEN 1 ELSE 0

\* geom(): the primitives written for feature f with category c in a field
geom(f, field, c, mk_centr) ==
    IF stream[f].geom = "polygon"
    THEN <<[type |-> "boundary", field |-> 0, cat |-> 0, feat |-> f]>>
         \o (IF mk_centr
             THEN <<[type |-> "centroid", field |-> field, cat |-> c, feat |-> f]>>
             ELSE <<>>)
    ELSE IF stream[f].geom = "point"
    THEN <<[type |-> "point", field |-> field, cat |-> c, feat |-> f]>>
    ELSE <<>>

\* line 1323: the feature id the data source gives the feature
OGR_F_GetFID(f) == attr[f].fid

\* lines 1321, 1633: the integer value of the key field of the feature
OGR_F_GetFieldAsInteger(f) == attr[f].kv

\* lines 1035-1055: key_idx of a layer: -2 without key option, -1 when the
\* key option names the FID column, else the index of the key field
KeyIdx(k) == IF k = "none" THEN -2 ELSE IF k = "fid" THEN -1 ELSE 0

\* a variant of the import pass that takes the FID also without key option
ImportCat_FidWithoutKey(k, f, c) ==
    IF stream[f].geom = "none" THEN c
    ELSE IF key_idx[k + 1] > -1 THEN OGR_F_GetFieldAsInteger(f)
    ELSE OGR_F_GetFID(f)

\* lines 1316-1323: the category of feature f of the k-th imported layer in
\* the import pass, c being the counter
ImportCat(k, f, c) ==
    IF stream[f].geom = "none" THEN c
    ELSE IF key_idx[k + 1] > -1 THEN OGR_F_GetFieldAsInteger(f)
    ELSE IF key_idx[k + 1] = -1 THEN OGR_F_GetFID(f)
    ELSE c

\* lines 1632-1635: the category of feature f of the k-th imported layer in
\* the reattachment pass, c being the counter
ReattachCat(k, f, c) ==
    IF key_idx[k + 1] > -1 THEN OGR_F_GetFieldAsInteger(f) ELSE c + 1

\* Vect_get_num_primitives(map, GV_BOUNDARY)
NumBoundaries(m) ==
    Cardinality({j \in 1 .. Len(m.lines) : m.lines[j].type = "boundary"})

\* a variant that leaves the distance at 0 when splitting is suppressed
SuppressSplit_Zero(nc, b) ==
    IF nc \/ b.xmin >= b.xmax \/ b.ymin >= b.ymax
    THEN [split_distance |-> Num(0), area_size |-> Num(-1)]
    ELSE [split_distance |-> Num(0),
          area_size |-> Sqrt((b.xmax - b.xmin) * (b.ymax - b.ymin))]

\* lines 875-883: boundary splitting is suppressed without cleaning and for
\* a box without width or height
SuppressSplit(nc, b) ==
    IF nc \/ b.xmin >= b.xmax \/ b.ymin >= b.ymax
    THEN [split_distance |-> Num(-1), area_size |-> Num(-1)]
    ELSE [split_distance |-> Num(0),
          area_size |-> Sqrt((b.xmax - b.xmin) * (b.ymax - b.ymin))]

\* a variant that divides by 8
SplitDistance_Div8(as, sd, n) ==
    IF Positive(as) /\ n > 50 THEN Div(Div(as, Log(n)), Num(8)) ELSE sd

\* lines 975-983: the splitting distance from the census count
SplitDistance(as, sd, n) ==
    IF Positive(as) /\ n > 50 THEN Div(Div(as, Log(n)), Num(16)) ELSE sd

\* a data source that was not opened: Ogr_ds == NULL
NoDs == [null |-> TRUE]

\* lines 483-493: the data source is opened, or the run ends
OpenSource ==
    /\ pc = "open_ds"
    /\ IF dsn_ok
       THEN Ogr_ds' = OpenDs /\ pc' = "layers"
       ELSE Ogr_ds' = NoDs /\ pc' = "fatal"
    /\ UNCHANGED <<Inputs, RefVars, EstVars, KeyVars, SplitVars, OGR_iter, layer, cat,
                   n_polygon_boundaries, use_tmp_vect, Out, Map, Tmp, last_op,
                   nmodif, rounds, cleaned, CentrVars, trav>>

\* lines 592-597: the index of the available layer of that name, else -1
FindLayer(name) ==
    IF \E j \in Layers : LayerName(j) = name
    THEN CHOOSE j \in Layers : LayerName(j) = name /\ \A i \in Layers : LayerName(i) = name => j <= i
    ELSE -1

\* lines 598-599: the layer asked for is available
LayerAvailable(i) == i # -1

\* lines 583-600: the layers found before the first one that is not
RECURSIVE FoundLayers(_)
FoundLayers(names) ==
    IF names = <<>> THEN <<>>
    ELSE LET i == FindLayer(Head(names))
         IN  IF LayerAvailable(i)
             THEN <<i>> \o FoundLayers(Tail(names))
             ELSE <<>>

\* lines 604-609: without layer option all layers are imported
AllAvailable == [k \in 1 .. NAvail |-> k - 1]

\* lines 582-610: the list of layers to import is made, or the run ends
ListLayers ==
    /\ pc = "layers"
    /\ IF layer_opt # <<>>
       THEN /\ layers' = FoundLayers(layer_opt)
            /\ pc' = IF Len(layers') = Len(layer_opt) THEN "filters" ELSE "fatal"
       ELSE /\ layers' = AllAvailable
            /\ pc' = "filters"
    /\ UNCHANGED <<stream, gdal22, ogr_interleaved_reading, poSpatialFilter,
                   attr_filter, no_clean, typeB, snap, key, attr, rings, bbox,
                   dsn_ok, layer_opt, filter_ok, db_err, heap, FilterVars, srs, srs_ret>>
    /\ UNCHANGED <<RefVars, EstVars, KeyVars, SplitVars, Ogr_ds, OGR_iter, layer, cat,
                   n_polygon_boundaries, use_tmp_vect, Out, Map, Tmp, last_op,
                   nmodif, rounds, cleaned, CentrVars, trav>>

\* line 888: G_malloc gives nlayers entries that were never written
Allocated == [k \in 0 .. (nlayers - 1) |-> heap]

\* n_features[i] is read: outside the array it is other memory
NfRead(nf, i) == IF i \in DOMAIN nf THEN nf[i] ELSE heap

\* n_features[i] = v: outside the array other memory is overwritten
NfWrite(nf, i, v) == IF i \in DOMAIN nf THEN [nf EXCEPT ![i] = v] ELSE nf

\* OGR_L_GetFeatureCount(Ogr_layer, 1): the features that pass the filters
OGR_L_GetFeatureCount(ds, l) ==
    Cardinality({i \in 1 .. Len(stream) : stream[i].layer = l /\ Passes(ds, i)})

\* lines 901-920: the head of the census loop for the k-th imported layer
CensusEnter(nf, ds, k) ==
    LET nf1 == NfWrite(nf, k, 0)
        cnt == IF NfRead(nf1, layer_id(k)) = 0
               THEN OGR_L_GetFeatureCount(ds, layer_id(k)) ELSE 0
    IN  [nf  |-> IF cnt > 0 THEN NfWrite(nf1, layer_id(k), cnt) ELSE nf1,
         cnt |-> cnt,
         idx |-> {k, layer_id(k)}]

\* lines 932-933: the features are counted when OGR gave no count
CountFeature(nf, cnt, k) == IF cnt <= 0 THEN NfWrite(nf, k, NfRead(nf, k) + 1) ELSE nf

\* lines 859-896: filters on the imported layers, the iterator is set up
MainFilters ==
    /\ pc = "filters"
    /\ IF FiltersGiven /\ Rejecting # {}
       THEN /\ Ogr_ds' = SetLayerFiltersUntil(Ogr_ds, 0, FirstRejecting)
            /\ pc' = "fatal"
            /\ UNCHANGED <<OGR_iter, n_polygon_boundaries, layer, SplitVars, CountVars>>
       ELSE /\ Ogr_ds' = MainSetFilters(Ogr_ds)
            /\ OGR_iter' = OGR_iterator_init(NAvail, ogr_interleaved_reading)
            /\ n_polygon_boundaries' = 0
            /\ layer' = 0
            /\ area_size' = SuppressSplit(no_clean, bbox).area_size
            /\ split_distance' = SuppressSplit(no_clean, bbox).split_distance
            /\ LET e == CensusEnter(Allocated, MainSetFilters(Ogr_ds), 0)
               IN  /\ n_features' = e.nf
                   /\ ogr_feature_count' = e.cnt
                   /\ nf_idx' = nf_idx \cup e.idx
            /\ pc' = "census"
    /\ UNCHANGED <<Inputs, RefVars, n_polygons, est, KeyVars, cat, use_tmp_vect, Out, Map, Tmp, last_op,
                   nmodif, rounds, cleaned, CentrVars, trav>>

\* lines 898-966: one turn of the census loop of the current layer
CensusStep ==
    /\ pc = "census"
    /\ layer < nlayers
    /\ LET r == ogr_getnextfeature(OGR_iter, Ogr_ds, layer_id(layer),
                                   layer_names(layer),
                                   poSpatialFilter[layer + 1], attr_filter)
       IN  /\ OGR_iter' = r.it
           /\ Ogr_ds' = r.ds
           /\ trav' = Note(trav, Req(layer, r.ret = NULL))
           /\ IF LayerDrained(r.ret)
              THEN /\ layer' = layer + 1
                   /\ UNCHANGED n_polygon_boundaries
                   /\ IF layer + 1 < nlayers
                      THEN LET e == CensusEnter(n_features, r.ds, layer + 1)
                           IN  /\ n_features' = e.nf
                               /\ ogr_feature_count' = e.cnt
                               /\ nf_idx' = nf_idx \cup e.idx
                      ELSE UNCHANGED CountVars
              ELSE /\ n_polygon_boundaries'
                        = CensusCount(n_polygon_boundaries, stream[r.ret].geom)
                   /\ n_features' = CountFeature(n_features, ogr_feature_count, layer)
                   /\ nf_idx' = nf_idx \cup {layer}
                   /\ UNCHANGED <<layer, ogr_feature_count>>
    /\ UNCHANGED <<Inputs, RefVars, n_polygons, est, KeyVars, SplitVars, pc, cat, use_tmp_vect, Out, Map, Tmp,
                   last_op, nmodif, rounds, cleaned, CentrVars>>

\* a variant that uses the temporary map whatever the census counted
UseTmpVect_Always(n) == TRUE

\* line 986
UseTmpVect(n) == n > 0

\* lines 968-986: after the census
Calibrate ==
    /\ pc = "census"
    /\ layer = nlayers
    /\ use_tmp_vect' = UseTmpVect(n_polygon_boundaries)
    /\ split_distance' = SplitDistance(area_size, split_distance,
                                       n_polygon_boundaries)
    /\ nf_idx' = nf_idx \cup (0 .. (nlayers - 1))
    /\ pc' = "open"
    /\ UNCHANGED <<Inputs, RefVars, n_polygons, est, n_features, ogr_feature_count, KeyVars, area_size, Ogr_ds, OGR_iter, layer, cat,
                   n_polygon_boundaries, Out, Map, Tmp, last_op, nmodif,
                   rounds, cleaned, CentrVars, trav>>

\* lines 1002-1014: the temporary map is used when cleaning polygons
OpensTmp == ~no_clean /\ use_tmp_vect

\* lines 993-1018: the output map and, for cleaning, the temporary map
OpenMaps ==
    /\ pc = "open"
    /\ Map' = [state |-> "open", lines |-> <<>>]
    /\ IF OpensTmp
       THEN Tmp' = [state |-> "open", lines |-> <<>>] /\ Out' = "Tmp"
       ELSE UNCHANGED Tmp /\ Out' = "Map"
    /\ pc' = "tables"
    /\ n_polygons' = 0
    /\ UNCHANGED <<Inputs, RefVars, est, CountVars, KeyVars, SplitVars, Ogr_ds, OGR_iter, layer, cat,
                   n_polygon_boundaries, use_tmp_vect, last_op, nmodif,
                   rounds, cleaned, CentrVars, trav>>

\* lines 1046-1067: the key option names a column that is not an integer
\* field of the layer; the FID column is taken without a look at the fields
KeyColumnFails == key = "field" /\ db_err.at = "key"

\* lines 1227-1245: the database cannot be opened, or the table not created
CreateTableFails == db_err.at = "table"

\* lines 1029-1250: key columns and attribute tables of the layers
Tables ==
    /\ pc = "tables"
    /\ IF KeyColumnFails \/ CreateTableFails
       THEN /\ pc' = "fatal"
            /\ UNCHANGED <<OGR_iter, Ogr_ds, trav, key_idx>>
       ELSE /\ LET r == OGR_iterator_reset(OGR_iter, Ogr_ds)
               IN  OGR_iter' = r.it /\ Ogr_ds' = r.ds
            /\ trav' = Append(trav, ResetMark)
            /\ key_idx' = [k \in 1 .. nlayers |-> KeyIdx(key)]
            /\ pc' = "import_start"
    /\ UNCHANGED <<Inputs, RefVars, EstVars, SplitVars, icat, rcat, layer, cat, n_polygon_boundaries,
                   use_tmp_vect, Out, Map, Tmp, last_op, nmodif, rounds,
                   cleaned, CentrVars>>

\* lines 1253-1259: the import pass starts
ImportStart ==
    /\ pc = "import_start"
    /\ LET r == OGR_iterator_reset(OGR_iter, Ogr_ds)
       IN  OGR_iter' = r.it /\ Ogr_ds' = r.ds
    /\ trav' = Append(trav, ResetMark)
    /\ layer' = 0
    /\ cat' = 1
    /\ pc' = "import"
    /\ UNCHANGED <<Inputs, RefVars, EstVars, KeyVars, SplitVars, n_polygon_boundaries, use_tmp_vect, Out,
                   Map, Tmp, last_op, nmodif, rounds, cleaned, CentrVars>>

\* Vect_write_line on the map geom() was given
WriteOut(prims) ==
    IF Out = "Tmp"
    THEN Tmp' = [Tmp EXCEPT !.lines = @ \o prims] /\ UNCHANGED Map
    ELSE Map' = [Map EXCEPT !.lines = @ \o prims] /\ UNCHANGED Tmp

\* lines 1421-1426: the row of the feature is not inserted, db_err.n rows
\* having been inserted before
InsertRowFails == db_err.at = "row" /\ Cardinality(icat) = db_err.n

\* lines 1290-1431: one turn of the import loop of the current layer
ImportStep ==
    /\ pc = "import"
    /\ layer < nlayers
    /\ LET r == ogr_getnextfeature(OGR_iter, Ogr_ds, layer_id(layer),
                                   layer_names(layer),
                                   poSpatialFilter[layer + 1], attr_filter)
       IN  /\ OGR_iter' = r.it
           /\ Ogr_ds' = r.ds
           /\ trav' = Note(trav, Req(layer, r.ret = NULL))
           /\ IF LayerDrained(r.ret)
              THEN /\ layer' = layer + 1
                   /\ cat' = 1
                   /\ UNCHANGED <<Map, Tmp, icat, n_polygons>>
              ELSE LET c == ImportCat(layer, r.ret, cat)
                   IN  /\ WriteOut(geom(r.ret, layer + 1, c, no_clean))
                       /\ n_polygons' = n_polygons + polygons(stream[r.ret].geom)
                       /\ icat' = icat \cup {[feat |-> r.ret, cat |-> c]}
                       /\ cat' = IF InsertRowFails THEN c ELSE c + 1
                       /\ UNCHANGED layer
           /\ pc' = IF ~LayerDrained(r.ret) /\ InsertRowFails THEN "fatal" ELSE pc
    /\ UNCHANGED <<Inputs, RefVars, est, CountVars, SplitVars, key_idx, rcat, n_polygon_boundaries, use_tmp_vect,
                   Out, last_op, nmodif, rounds, cleaned, CentrVars>>

\* lines 1485-1486: the condition of the cleaning block
CleaningRuns ==
    use_tmp_vect /\ ~no_clean /\ NumBoundaries(IF Out = "Tmp" THEN Tmp ELSE Map) > 0

\* lines 1445-1486: after the import pass
AfterImport ==
    /\ pc = "import"
    /\ layer = nlayers
    /\ last_op' = IF use_tmp_vect THEN "build_base" ELSE last_op
    /\ cleaned' = CleaningRuns
    /\ pc' = IF CleaningRuns THEN "snap" ELSE "close"
    /\ UNCHANGED <<Inputs, RefVars, EstVars, KeyVars, SplitVars, Ogr_ds, OGR_iter, layer, cat,
                   n_polygon_boundaries, use_tmp_vect, Out, Map, Tmp, nmodif,
                   rounds, CentrVars, trav>>

\* ------------------------------------------------------------------------
\* main(): the cleaning block (lines 1485-1747)
\* ------------------------------------------------------------------------
\* one Topology Engine operation on Tmp, then on to the next statement
Stage(from, op, to) ==
    /\ pc = from
    /\ last_op' = op
    /\ pc' = to
    /\ UNCHANGED <<Inputs, RefVars, EstVars, KeyVars, SplitVars, Ogr_ds, OGR_iter, layer, cat,
                   n_polygon_boundaries, use_tmp_vect, Out, Map, Tmp, nmodif,
                   rounds, cleaned, CentrVars, trav>>

\* a variant that snaps whatever the threshold
Snaps_Always(tol) == TRUE

\* line 1502
Snaps(tol) == tol >= 0

\* lines 1502-1506: Vect_snap_lines, unless snapping is off
CleanSnap ==
    /\ pc = "snap"
    /\ last_op' = IF Snaps(snap) THEN "snap" ELSE last_op
    /\ pc' = "break_polygons"
    /\ UNCHANGED <<Inputs, RefVars, EstVars, KeyVars, SplitVars, Ogr_ds, OGR_iter, layer, cat,
                   n_polygon_boundaries, use_tmp_vect, Out, Map, Tmp, nmodif,
                   rounds, cleaned, CentrVars, trav>>

\* line 1521: Vect_break_polygons
CleanBreakPolygons == Stage("break_polygons", "break_polygons", "remove_duplicates")

\* line 1526: Vect_remove_duplicates
CleanRemoveDuplicates == Stage("remove_duplicates", "remove_duplicates", "break_lines")

\* line 1536: Vect_break_lines
LoopBreakLines == Stage("break_lines", "break_lines", "loop_remove_duplicates")

\* line 1540: Vect_remove_duplicates
LoopRemoveDuplicates ==
    Stage("loop_remove_duplicates", "loop_remove_duplicates", "small_angles")

\* a variant that also iterates again after a call without modifications
LoopAgain_Always(n) == n >= 0

\* line 1546: the loop goes on while modifications were reported
LoopAgain(n) == n > 0

\* the count of loop iterations stops at MaxRounds
CountRound(n) == IF n < MaxRounds THEN n + 1 ELSE n

\* lines 1544-1546: Vect_clean_small_angles_at_nodes and the loop condition
LoopSmallAngles ==
    /\ pc = "small_angles"
    /\ last_op' = "clean_small_angles"
    /\ \E m \in 0 .. MaxModif :
          /\ nmodif' = m
          /\ pc' = IF LoopAgain(m) THEN "break_lines" ELSE "merge"
    /\ rounds' = CountRound(rounds)
    /\ UNCHANGED <<Inputs, RefVars, EstVars, KeyVars, SplitVars, Ogr_ds, OGR_iter, layer, cat,
                   n_polygon_boundaries, use_tmp_vect, Out, Map, Tmp, cleaned,
                   CentrVars, trav>>

\* line 1551: Vect_merge_lines
CleanMerge == Stage("merge", "merge_lines", "dangles")

\* lines 1554-1561 and 1567-1578: lines turned into boundaries are changed
\* back to lines, other dangles and bridges are removed
DangleOp(b) == IF b THEN "chtype_dangles" ELSE "remove_dangles"

\* a variant that removes the bridges whatever the type option
BridgeOp_AlwaysRemove(b) == "remove_bridges"

BridgeOp(b) == IF b THEN "chtype_bridges" ELSE "remove_bridges"

CleanDangles == Stage("dangles", DangleOp(typeB), "build_areas")

\* line 1564: Vect_build_partial(GV_BUILD_AREAS)
CleanBuildAreas == Stage("build_areas", "build_areas", "bridges")

\* lines 1567-1578: the bridges; the topology is dropped if any was modified
CleanBridges ==
    /\ pc = "bridges"
    /\ last_op' = BridgeOp(typeB)
    /\ \E m \in 0 .. MaxModif :
          /\ nmodif' = m
          /\ pc' = IF m # 0 THEN "bridges_rebuild" ELSE "build_none"
    /\ UNCHANGED <<Inputs, RefVars, EstVars, KeyVars, SplitVars, Ogr_ds, OGR_iter, layer, cat,
                   n_polygon_boundaries, use_tmp_vect, Out, Map, Tmp, rounds,
                   cleaned, CentrVars, trav>>

\* lines 1571, 1577: Vect_build_partial(GV_BUILD_NONE) after modified bridges
CleanBridgesRebuild == Stage("bridges_rebuild", "build_none_bridges", "build_none")

\* line 1582: Vect_build_partial(GV_BUILD_NONE)
CleanBuildNone == Stage("build_none", "build_none", "attach_isles")

\* line 1583: Vect_build_partial(GV_BUILD_ATTACH_ISLES) builds the areas
\* again and attaches the isles
CleanAttachIsles == Stage("attach_isles", "attach_isles", "centr_init")

\* a CENTR as G_calloc leaves it
ZeroCentr == [valid |-> 0, x |-> 0, y |-> 0, has_cats |-> FALSE, cats |-> <<>>]

\* lines 1586-1590: the CENTR array for the areas of Tmp, the spatial index
CentrInit ==
    /\ pc = "centr_init"
    /\ \E n \in 0 .. MaxAreas :
          /\ ncentr' = n
          /\ Centr' = [c \in 0 .. n |-> ZeroCentr]
    /\ si' = {}
    /\ centr' = 1
    /\ pc' = "centr_loop"
    /\ UNCHANGED <<Inputs, RefVars, EstVars, KeyVars, SplitVars, Ogr_ds, OGR_iter, layer, cat,
                   n_polygon_boundaries, use_tmp_vect, Out, Map, Tmp, last_op,
                   nmodif, rounds, cleaned, n_overlaps, n_nocat, pt_ret, AreaVars, trav>>

\* lines 1603-1605: the box of a centroid in the spatial index
PointBox(x, y) == [N |-> y, S |-> y, E |-> x, W |-> x, T |-> 0, B |-> 0]

\* a variant that makes the record valid whatever the engine returned
CentrRecord_AlwaysValid(ret, pt) ==
    [valid |-> 1, x |-> pt[1], y |-> pt[2], has_cats |-> TRUE, cats |-> <<>>]

\* lines 1592-1606: the record of area c, given what Vect_get_point_in_area
\* returned (ret) and the point it found
CentrRecord(ret, pt) ==
    IF ret < 0
    THEN [ZeroCentr EXCEPT !.has_cats = TRUE]
    ELSE [valid |-> 1, x |-> pt[1], y |-> pt[2], has_cats |-> TRUE, cats |-> <<>>]

\* a variant that also indexes the areas without a point
IndexAfter_Always(idx, c, ret, pt) ==
    idx \cup {[id |-> c, box |-> PointBox(pt[1], pt[2])]}

\* line 1606: Vect_spatial_index_add_item for a valid record only
IndexAfter(idx, c, ret, pt) ==
    IF ret < 0 THEN idx
    ELSE idx \cup {[id |-> c, box |-> PointBox(pt[1], pt[2])]}

\* lines 1591-1607: one turn of the loop over the areas
CentrStep ==
    /\ pc = "centr_loop"
    /\ centr <= ncentr
    /\ \E ret \in {-1, 0}, pt \in AreaPoints :
          /\ Centr' = [Centr EXCEPT ![centr] = CentrRecord(ret, pt)]
          /\ si' = IndexAfter(si, centr, ret, pt)
          /\ pt_ret' = Append(pt_ret, [ret |-> ret,
                                       pt |-> IF ret < 0 THEN <<0, 0>> ELSE pt])
    /\ centr' = centr + 1
    /\ UNCHANGED <<Inputs, RefVars, EstVars, KeyVars, SplitVars, pc, Ogr_ds, OGR_iter, layer, cat,
                   n_polygon_boundaries, use_tmp_vect, Out, Map, Tmp, last_op,
                   nmodif, rounds, cleaned, ncentr, n_overlaps, n_nocat, AreaVars, trav>>

\* lines 1609-1624: the reattachment pass starts
ReattachStart ==
    /\ pc = "centr_loop"
    /\ centr > ncentr
    /\ LET r == OGR_iterator_reset(OGR_iter, Ogr_ds)
       IN  OGR_iter' = r.it /\ Ogr_ds' = r.ds
    /\ trav' = Append(trav, ResetMark)
    /\ layer' = 0
    /\ cat' = 0
    /\ pc' = "reattach"
    /\ UNCHANGED <<Inputs, RefVars, EstVars, KeyVars, SplitVars, n_polygon_boundaries, use_tmp_vect, Out,
                   Map, Tmp, last_op, nmodif, rounds, cleaned, CentrVars>>

\* centroid(): the category c of the field is added to the records of the
\* areas whose point the spatial index finds inside the polygon (hits)
centroid(C, hits, field, c) ==
    [k \in DOMAIN C |->
        IF k \in hits THEN [C[k] EXCEPT !.cats = Append(@, <<field, c>>)]
        ELSE C[k]]

\* lines 1625-1664: one turn of the reattachment loop of the current layer
ReattachStep ==
    /\ pc = "reattach"
    /\ layer < nlayers
    /\ LET r == ogr_getnextfeature(OGR_iter, Ogr_ds, layer_id(layer),
                                   layer_names(layer),
                                   poSpatialFilter[layer + 1], attr_filter)
       IN  /\ OGR_iter' = r.it
           /\ Ogr_ds' = r.ds
           /\ trav' = Note(trav, Req(layer, r.ret = NULL))
           /\ IF LayerDrained(r.ret)
              THEN /\ layer' = layer + 1
                   /\ cat' = 0
                   /\ UNCHANGED <<Centr, rcat>>
              ELSE LET c == ReattachCat(layer, r.ret, cat)
                   IN  /\ cat' = c
                       /\ rcat' = rcat \cup {[feat |-> r.ret, cat |-> c]}
                       /\ UNCHANGED layer
                       /\ IF stream[r.ret].geom = "polygon"
                          THEN \E hits \in SUBSET {e.id : e \in si} :
                                  Centr' = centroid(Centr, hits, layer + 1, c)
                          ELSE UNCHANGED Centr
    /\ UNCHANGED <<Inputs, RefVars, EstVars, SplitVars, key_idx, icat, pc, n_polygon_boundaries, use_tmp_vect,
                   Out, Map, Tmp, last_op, nmodif, rounds, cleaned, ncentr,
                   centr, si, n_overlaps, n_nocat, pt_ret, AreaVars>>

\* lines 1668-1673: the centroids are written next
ReattachDone ==
    /\ pc = "reattach"
    /\ layer = nlayers
    /\ n_overlaps' = 0
    /\ n_nocat' = 0
    /\ total_area' = NoArea
    /\ overlap_area' = NoArea
    /\ nocat_area' = NoArea
    /\ centr' = 1
    /\ pc' = "write_centr"
    /\ UNCHANGED <<Inputs, RefVars, EstVars, KeyVars, SplitVars, Ogr_ds, OGR_iter, layer, cat,
                   n_polygon_boundaries, use_tmp_vect, Out, Map, Tmp, last_op,
                   nmodif, rounds, cleaned, ncentr, Centr, si, pt_ret, trav>>

\* a variant that takes no record for one without categories
NoCats_Never(rec) == FALSE

\* line 1686: the record has no category
NoCats(rec) == Len(rec.cats) = 0

\* a variant that takes a single category for an overlap
Overlaps_FromOne(n) == n >= 1

\* line 1692: more than one category was attached to the centroid
Overlaps(n) == n > 1

\* lines 1674-1706: one turn of the loop that writes the centroids
WriteCentrStep ==
    /\ pc = "write_centr"
    /\ centr <= ncentr
    /\ total_area' = AddArea(total_area, centr)
    /\ LET rec == Centr[centr]
           n   == Len(rec.cats)
           all == IF Overlaps(n) THEN Append(rec.cats, <<nlayers + 1, n>>)
                  ELSE rec.cats
       IN  IF rec.valid = 0
           THEN UNCHANGED <<Centr, Tmp, n_overlaps, n_nocat, overlap_area, nocat_area>>
           ELSE IF NoCats(rec)
           THEN /\ nocat_area' = AddArea(nocat_area, centr)
                /\ n_nocat' = n_nocat + 1
                /\ UNCHANGED <<Centr, Tmp, n_overlaps, overlap_area>>
           ELSE /\ Centr' = [Centr EXCEPT ![centr].cats = all]
                /\ overlap_area' = IF Overlaps(n) THEN AddArea(overlap_area, centr)
                                   ELSE overlap_area
                /\ n_overlaps' = IF Overlaps(n) THEN n_overlaps + 1 ELSE n_overlaps
                /\ Tmp' = [Tmp EXCEPT !.lines =
                              Append(@, [type |-> "centroid", field |-> 0,
                                         cat |-> 0, feat |-> NULL,
                                         x |-> rec.x, y |-> rec.y, cats |-> all])]
                /\ UNCHANGED <<n_nocat, nocat_area>>
    /\ centr' = centr + 1
    /\ UNCHANGED <<Inputs, RefVars, EstVars, KeyVars, SplitVars, pc, Ogr_ds, OGR_iter, layer, cat,
                   n_polygon_boundaries, use_tmp_vect, Out, Map, last_op,
                   nmodif, rounds, cleaned, ncentr, si, pt_ret, trav>>

\* lines 1707-1747: the records are freed, the statistics reported
WriteCentrDone ==
    /\ pc = "write_centr"
    /\ centr > ncentr
    /\ pc' = "close"
    /\ UNCHANGED <<Inputs, RefVars, EstVars, KeyVars, SplitVars, Ogr_ds, OGR_iter, layer, cat,
                   n_polygon_boundaries, use_tmp_vect, Out, Map, Tmp, last_op,
                   nmodif, rounds, cleaned, CentrVars, trav>>

\* Vect_get_num_primitives(map, GV_CENTROID)
NumCentroids(m) ==
    Cardinality({j \in 1 .. Len(m.lines) : m.lines[j].type = "centroid"})

\* lines 1774-1811: min_snap and max_snap are powers of ten found from the
\* largest coordinate of the map, the double and the single precision ULP
SnapRanges == {r \in [min_snap : Pow10, max_snap : Pow10] : r.min_snap < r.max_snap}

\* a variant that runs the test whatever the number of layers
RunsEstimator_AnyLayers(np, nl) == np # 0

\* line 1766
RunsEstimator(np, nl) == np # 0 /\ nl = 1

\* lines 1814-1833: the messages when polygons overlap
OverlapMsgs(sn, min, max) ==
    {"overlapping", "need_cleaning"}
        \cup (IF sn < max THEN {"could_snap", "range"} ELSE {})
        \cup (IF sn < min THEN {"try_min_snap"}
              ELSE IF sn < max THEN {"try_snap_times_10"}
              ELSE {"manual"})

\* lines 1834-1851: the messages when the counts differ without overlaps
CountMsgs(np, nc, sn) ==
    (IF nc < np THEN {"lost"} ELSE {})
        \cup (IF nc > np THEN {"additional"} ELSE {})
        \cup (IF sn > 0 THEN {"snap_too_large", "range", "manual"}
              ELSE {"could_snap", "range"})

\* lines 1766-1855: the test for topological errors
Estimate(np, nl, nc, no, sn, min, max) ==
    IF RunsEstimator(np, nl)
    THEN IF nc # np \/ no # 0
         THEN [msgs |-> {"separator"} \cup (IF no # 0 THEN OverlapMsgs(sn, min, max)
                                             ELSE CountMsgs(np, nc, sn)),
               ncentr |-> nc, min_snap |-> min, max_snap |-> max]
         ELSE [NoEst EXCEPT !.ncentr = nc]
    ELSE NoEst

\* lines 1749-1859: the temporary map is copied to the output map and
\* closed, the output map is built and closed
Close ==
    /\ pc = "close"
    /\ IF use_tmp_vect
       THEN /\ Map' = [state |-> "closed", lines |-> Map.lines \o Tmp.lines]
            /\ Tmp' = [Tmp EXCEPT !.state = "closed"]
       ELSE /\ Map' = [Map EXCEPT !.state = "closed"]
            /\ UNCHANGED Tmp
    /\ \E range \in SnapRanges :
          est' = Estimate(n_polygons, nlayers, NumCentroids(Map'), n_overlaps,
                          snap, range.min_snap, range.max_snap)
    /\ pc' = "done"
    /\ UNCHANGED <<Inputs, RefVars, n_polygons, CountVars, KeyVars, SplitVars, Ogr_ds, OGR_iter, layer, cat,
                   n_polygon_boundaries, use_tmp_vect, Out, last_op, nmodif,
                   rounds, cleaned, CentrVars, trav>>

Next ==
    \/ MainFilters
    \/ CensusStep
    \/ Calibrate
    \/ OpenMaps
    \/ Tables
    \/ ImportStart
    \/ ImportStep
    \/ AfterImport
    \/ CleanSnap
    \/ CleanBreakPolygons
    \/ CleanRemoveDuplicates
    \/ LoopBreakLines
    \/ LoopRemoveDuplicates
    \/ LoopSmallAngles
    \/ CleanMerge
    \/ CleanDangles
    \/ CleanBuildAreas
    \/ CleanBridges
    \/ CleanBridgesRebuild
    \/ CleanBuildNone
    \/ CleanAttachIsles
    \/ CentrInit
    \/ CentrStep
    \/ ReattachStart
    \/ ReattachStep
    \/ ReattachDone
    \/ WriteCentrStep
    \/ WriteCentrDone
    \/ Close

Spec == Init /\ [][Next]_vars

\* the boxes create_spatial_filter can leave in xmin, ymin, xmax, ymax
Boxes ==
    [xmin : 0 .. MaxCoord, ymin : 0 .. MaxCoord,
     xmax : 0 .. MaxCoord, ymax : 0 .. MaxCoord]

\* polygons of one ring, and of so many that one or two of them pass 50
RingChoices == {1, 25, 50, 51}

\* the run of main() with polygons of several rings, up to the cleaning
InitSplit ==
    /\ stream \in SeqsUpTo(MainFeatureTypes, MaxFeatMain)
    /\ gdal22 = TRUE
    /\ ogr_interleaved_reading = FALSE
    /\ layers \in ImportLists
    /\ no_clean \in BOOLEAN
    /\ typeB = FALSE
    /\ snap = -1
    /\ key = "none"
    /\ attr = [i \in 1 .. Len(stream) |-> [fid |-> i, kv |-> 0]]
    /\ heap = 0
    /\ srs = [l \in Layers |-> NoSrs]
    /\ srs_ret = 0
    /\ extent = [l \in Layers |-> NoExtent]
    /\ use_region = FALSE
    /\ spat = NoSpat
    /\ cur_wind = UnitBox
    /\ ptr_gt = FALSE
    /\ Ogr_oRing = <<>>
    /\ have_spatial_filter = FALSE
    /\ n_features = <<>>
    /\ ogr_feature_count = 0
    /\ nf_idx = {}
    /\ n_polygons = 0
    /\ est = NoEst
    /\ db_err = NoDbErr
    /\ dsn_ok = TRUE
    /\ layer_opt = [k \in 1 .. Len(layers) |-> LayerName(layers[k])]
    /\ filter_ok = [l \in Layers |-> TRUE]
    /\ rings \in RingChoices
    /\ bbox \in Boxes
    /\ poSpatialFilter = [k \in 1 .. Len(layers) |-> FALSE]
    /\ attr_filter = FALSE
    /\ Ogr_ds = OpenDs
    /\ OGR_iter = OGR_iterator_init(0, FALSE)
    /\ call = NoCall
    /\ refcall = NoCall
    /\ out = <<>>
    /\ refout = <<>>
    /\ pat = 0
    /\ Ref_ds = OpenDs
    /\ Ref_iter = OGR_iterator_init(0, FALSE)
    /\ pc = "filters"
    /\ layer = 0
    /\ cat = 0
    /\ n_polygon_boundaries = 0
    /\ use_tmp_vect = FALSE
    /\ Out = "Map"
    /\ Map = NoMap
    /\ Tmp = NoMap
    /\ last_op = "none"
    /\ nmodif = 0
    /\ rounds = 0
    /\ cleaned = FALSE
    /\ ncentr = 0
    /\ centr = 0
    /\ Centr = <<>>
    /\ si = {}
    /\ n_overlaps = 0
    /\ n_nocat = 0
    /\ total_area = NoArea
    /\ overlap_area = NoArea
    /\ nocat_area = NoArea
    /\ pt_ret = <<>>
    /\ area_size = Num(0)
    /\ split_distance = Num(0)
    /\ key_idx = <<>>
    /\ icat = {}
    /\ rcat = {}
    /\ trav = <<>>

NextSplit ==
    \/ MainFilters
    \/ CensusStep
    \/ Calibrate
    \/ OpenMaps
    \/ Tables
    \/ ImportStart
    \/ ImportStep
    \/ AfterImport

SpecSplit == InitSplit /\ [][NextSplit]_vars

\* the names the layer option can hold: those of the source and another one
OptNames == {LayerName(j) : j \in Layers} \cup {"nosuchlayer"}

\* the layer option: no name, or distinct names
LayerOpts ==
    {q \in SeqsUpTo(OptNames, NAvail) :
        \A a, b \in 1 .. Len(q) : a # b => q[a] # q[b]}

\* main() from the opening of the data source
InitStart ==
    /\ stream \in SeqsUpTo(MainFeatureTypes, MaxFeatMain)
    /\ gdal22 = TRUE
    /\ ogr_interleaved_reading = FALSE
    /\ layers = <<>>
    /\ no_clean \in BOOLEAN
    /\ typeB = FALSE
    /\ snap = -1
    /\ key = "none"
    /\ attr = [i \in 1 .. Len(stream) |-> [fid |-> i, kv |-> 0]]
    /\ heap = 0
    /\ srs = [l \in Layers |-> NoSrs]
    /\ srs_ret = 0
    /\ extent = [l \in Layers |-> NoExtent]
    /\ use_region = FALSE
    /\ spat = NoSpat
    /\ cur_wind = UnitBox
    /\ ptr_gt = FALSE
    /\ Ogr_oRing = <<>>
    /\ have_spatial_filter = FALSE
    /\ n_features = <<>>
    /\ ogr_feature_count = 0
    /\ nf_idx = {}
    /\ n_polygons = 0
    /\ est = NoEst
    /\ db_err = NoDbErr
    /\ dsn_ok \in BOOLEAN
    /\ layer_opt \in LayerOpts
    /\ filter_ok \in [Layers -> BOOLEAN]
    /\ rings = 1
    /\ bbox = UnitBox
    /\ poSpatialFilter \in [1 .. NAvail -> BOOLEAN]
    /\ attr_filter \in BOOLEAN
    /\ Ogr_ds = NoDs
    /\ OGR_iter = OGR_iterator_init(0, FALSE)
    /\ call = NoCall
    /\ refcall = NoCall
    /\ out = <<>>
    /\ refout = <<>>
    /\ pat = 0
    /\ Ref_ds = OpenDs
    /\ Ref_iter = OGR_iterator_init(0, FALSE)
    /\ pc = "open_ds"
    /\ layer = 0
    /\ cat = 0
    /\ n_polygon_boundaries = 0
    /\ use_tmp_vect = FALSE
    /\ Out = "Map"
    /\ Map = NoMap
    /\ Tmp = NoMap
    /\ last_op = "none"
    /\ nmodif = 0
    /\ rounds = 0
    /\ cleaned = FALSE
    /\ ncentr = 0
    /\ centr = 0
    /\ Centr = <<>>
    /\ si = {}
    /\ n_overlaps = 0
    /\ n_nocat = 0
    /\ total_area = NoArea
    /\ overlap_area = NoArea
    /\ nocat_area = NoArea
    /\ pt_ret = <<>>
    /\ area_size = Num(0)
    /\ split_distance = Num(0)
    /\ key_idx = <<>>
    /\ icat = {}
    /\ rcat = {}
    /\ trav = <<>>

NextStart ==
    \/ OpenSource
    \/ ListLayers
    \/ MainFilters
    \/ CensusStep
    \/ Calibrate

SpecStart == InitStart /\ [][NextStart]_vars

\* the failures of the key column and of the database
DbErrs ==
    {NoDbErr, [at |-> "key", n |-> 0], [at |-> "table", n |-> 0]}
        \cup {[at |-> "row", n |-> k] : k \in 0 .. (MaxFeatMain - 1)}

\* the run of main() with a key column or a database that can fail
InitFatal ==
    /\ stream \in SeqsUpTo(MainFeatureTypes, MaxFeatMain)
    /\ gdal22 = TRUE
    /\ ogr_interleaved_reading = FALSE
    /\ layers \in ImportLists
    /\ no_clean \in BOOLEAN
    /\ typeB = FALSE
    /\ snap = -1
    /\ key \in {"none", "field"}
    /\ attr = [i \in 1 .. Len(stream) |-> [fid |-> i, kv |-> i]]
    /\ heap = 0
    /\ srs = [l \in Layers |-> NoSrs]
    /\ srs_ret = 0
    /\ extent = [l \in Layers |-> NoExtent]
    /\ use_region = FALSE
    /\ spat = NoSpat
    /\ cur_wind = UnitBox
    /\ ptr_gt = FALSE
    /\ Ogr_oRing = <<>>
    /\ have_spatial_filter = FALSE
    /\ n_features = <<>>
    /\ ogr_feature_count = 0
    /\ nf_idx = {}
    /\ n_polygons = 0
    /\ est = NoEst
    /\ db_err \in DbErrs
    /\ dsn_ok = TRUE
    /\ layer_opt = [k \in 1 .. Len(layers) |-> LayerName(layers[k])]
    /\ filter_ok = [l \in Layers |-> TRUE]
    /\ rings = 1
    /\ bbox = UnitBox
    /\ poSpatialFilter = [k \in 1 .. Len(layers) |-> FALSE]
    /\ attr_filter = FALSE
    /\ Ogr_ds = OpenDs
    /\ OGR_iter = OGR_iterator_init(0, FALSE)
    /\ call = NoCall
    /\ refcall = NoCall
    /\ out = <<>>
    /\ refout = <<>>
    /\ pat = 0
    /\ Ref_ds = OpenDs
    /\ Ref_iter = OGR_iterator_init(0, FALSE)
    /\ pc = "filters"
    /\ layer = 0
    /\ cat = 0
    /\ n_polygon_boundaries = 0
    /\ use_tmp_vect = FALSE
    /\ Out = "Map"
    /\ Map = NoMap
    /\ Tmp = NoMap
    /\ last_op = "none"
    /\ nmodif = 0
    /\ rounds = 0
    /\ cleaned = FALSE
    /\ ncentr = 0
    /\ centr = 0
    /\ Centr = <<>>
    /\ si = {}
    /\ n_overlaps = 0
    /\ n_nocat = 0
    /\ total_area = NoArea
    /\ overlap_area = NoArea
    /\ nocat_area = NoArea
    /\ pt_ret = <<>>
    /\ area_size = Num(0)
    /\ split_distance = Num(0)
    /\ key_idx = <<>>
    /\ icat = {}
    /\ rcat = {}
    /\ trav = <<>>

SpecFatal == InitFatal /\ [][NextSplit]_vars

\* the values of the snap option in the runs that end with the test
EstSnapValues == {-1} \cup Pow10

\* the run of main() up to the test for topological errors
InitEst ==
    /\ stream \in SeqsUpTo(MainFeatureTypes, MaxFeatMain)
    /\ gdal22 = TRUE
    /\ ogr_interleaved_reading = FALSE
    /\ layers \in ImportLists
    /\ no_clean \in BOOLEAN
    /\ typeB = FALSE
    /\ snap \in EstSnapValues
    /\ key = "none"
    /\ attr = [i \in 1 .. Len(stream) |-> [fid |-> i, kv |-> 0]]
    /\ heap = 0
    /\ srs = [l \in Layers |-> NoSrs]
    /\ srs_ret = 0
    /\ extent = [l \in Layers |-> NoExtent]
    /\ use_region = FALSE
    /\ spat = NoSpat
    /\ cur_wind = UnitBox
    /\ ptr_gt = FALSE
    /\ Ogr_oRing = <<>>
    /\ have_spatial_filter = FALSE
    /\ n_features = <<>>
    /\ ogr_feature_count = 0
    /\ nf_idx = {}
    /\ n_polygons = 0
    /\ est = NoEst
    /\ db_err = NoDbErr
    /\ dsn_ok = TRUE
    /\ layer_opt = [k \in 1 .. Len(layers) |-> LayerName(layers[k])]
    /\ filter_ok = [l \in Layers |-> TRUE]
    /\ rings = 1
    /\ bbox = UnitBox
    /\ poSpatialFilter = [k \in 1 .. Len(layers) |-> FALSE]
    /\ attr_filter = FALSE
    /\ Ogr_ds = OpenDs
    /\ OGR_iter = OGR_iterator_init(0, FALSE)
    /\ call = NoCall
    /\ refcall = NoCall
    /\ out = <<>>
    /\ refout = <<>>
    /\ pat = 0
    /\ Ref_ds = OpenDs
    /\ Ref_iter = OGR_iterator_init(0, FALSE)
    /\ pc = "filters"
    /\ layer = 0
    /\ cat = 0
    /\ n_polygon_boundaries = 0
    /\ use_tmp_vect = FALSE
    /\ Out = "Map"
    /\ Map = NoMap
    /\ Tmp = NoMap
    /\ last_op = "none"
    /\ nmodif = 0
    /\ rounds = 0
    /\ cleaned = FALSE
    /\ ncentr = 0
    /\ centr = 0
    /\ Centr = <<>>
    /\ si = {}
    /\ n_overlaps = 0
    /\ n_nocat = 0
    /\ total_area = NoArea
    /\ overlap_area = NoArea
    /\ nocat_area = NoArea
    /\ pt_ret = <<>>
    /\ area_size = Num(0)
    /\ split_distance = Num(0)
    /\ key_idx = <<>>
    /\ icat = {}
    /\ rcat = {}
    /\ trav = <<>>

SpecEst == InitEst /\ [][Next]_vars

\* what memory that was never written can hold
Garbage == {0, 1}

\* the run of main() over memory of any content, up to the cleaning
InitCount ==
    /\ stream \in SeqsUpTo(MainFeatureTypes, MaxFeatMain)
    /\ gdal22 = TRUE
    /\ ogr_interleaved_reading = FALSE
    /\ layers \in ImportLists
    /\ no_clean \in BOOLEAN
    /\ typeB = FALSE
    /\ snap = -1
    /\ key = "none"
    /\ attr = [i \in 1 .. Len(stream) |-> [fid |-> i, kv |-> 0]]
    /\ heap \in Garbage
    /\ srs = [l \in Layers |-> NoSrs]
    /\ srs_ret = 0
    /\ extent = [l \in Layers |-> NoExtent]
    /\ use_region = FALSE
    /\ spat = NoSpat
    /\ cur_wind = UnitBox
    /\ ptr_gt = FALSE
    /\ Ogr_oRing = <<>>
    /\ have_spatial_filter = FALSE
    /\ n_features = <<>>
    /\ ogr_feature_count = 0
    /\ nf_idx = {}
    /\ n_polygons = 0
    /\ est = NoEst
    /\ db_err = NoDbErr
    /\ dsn_ok = TRUE
    /\ layer_opt = [k \in 1 .. Len(layers) |-> LayerName(layers[k])]
    /\ filter_ok = [l \in Layers |-> TRUE]
    /\ rings = 1
    /\ bbox = UnitBox
    /\ poSpatialFilter = [k \in 1 .. Len(layers) |-> FALSE]
    /\ attr_filter = FALSE
    /\ Ogr_ds = OpenDs
    /\ OGR_iter = OGR_iterator_init(0, FALSE)
    /\ call = NoCall
    /\ refcall = NoCall
    /\ out = <<>>
    /\ refout = <<>>
    /\ pat = 0
    /\ Ref_ds = OpenDs
    /\ Ref_iter = OGR_iterator_init(0, FALSE)
    /\ pc = "filters"
    /\ layer = 0
    /\ cat = 0
    /\ n_polygon_boundaries = 0
    /\ use_tmp_vect = FALSE
    /\ Out = "Map"
    /\ Map = NoMap
    /\ Tmp = NoMap
    /\ last_op = "none"
    /\ nmodif = 0
    /\ rounds = 0
    /\ cleaned = FALSE
    /\ ncentr = 0
    /\ centr = 0
    /\ Centr = <<>>
    /\ si = {}
    /\ n_overlaps = 0
    /\ n_nocat = 0
    /\ total_area = NoArea
    /\ overlap_area = NoArea
    /\ nocat_area = NoArea
    /\ pt_ret = <<>>
    /\ area_size = Num(0)
    /\ split_distance = Num(0)
    /\ key_idx = <<>>
    /\ icat = {}
    /\ rcat = {}
    /\ trav = <<>>

SpecCount == InitCount /\ [][NextSplit]_vars

\* ------------------------------------------------------------------------
\* create_spatial_filter
\* ------------------------------------------------------------------------
\* gis.h: MAX and MIN
MAX(a, b) == IF a > b THEN a ELSE b

MIN(a, b) == IF a < b THEN a ELSE b

\* atof of an answer of the spatial option
atof(a) ==
    CASE a = "0" -> 0
      [] a = "1" -> 1
      [] a = "2" -> 2
      [] OTHER -> 0

\* lines 2293-2313: the extent of the k-th imported layer
LayerExtent(k) == extent[layer_id(k)]

\* lines 2319-2344: the box after the region flag and the spatial option;
\* answer i goes to xmin, ymin, xmax, ymax for i = 0, 1, 2, 3
UserBox(b) ==
    LET r == IF use_region
             THEN [xmin |-> cur_wind.xmin, ymin |-> cur_wind.ymin,
                   xmax |-> cur_wind.xmax, ymax |-> cur_wind.ymax]
             ELSE b
    IN  [xmin |-> IF Len(spat) >= 1 THEN atof(spat[1]) ELSE r.xmin,
         ymin |-> IF Len(spat) >= 2 THEN atof(spat[2]) ELSE r.ymin,
         xmax |-> IF Len(spat) >= 3 THEN atof(spat[3]) ELSE r.xmax,
         ymax |-> IF Len(spat) >= 4 THEN atof(spat[4]) ELSE r.ymax]

\* lines 2317-2318, 2339-2344: the fatal errors of the options
SpatFatal ==
    \/ use_region /\ spat # NoSpat
    \/ /\ spat # NoSpat
       /\ \/ Len(spat) # 4
          \/ UserBox(NoBox).xmin > UserBox(NoBox).xmax
          \/ UserBox(NoBox).ymin > UserBox(NoBox).ymax

\* lines 2357, 2381: *xmin <= *xmax && *ymin <= *ymax
HaveBox(b) == b.xmin <= b.xmax /\ b.ymin <= b.ymax

\* a check of the x range only
NoOverlap_XOnly(e, b) == e.xmin > b.xmax \/ e.xmax < b.xmin

\* lines 2359-2360: the check for any overlap
NoOverlap(e, b) ==
    e.xmin > b.xmax \/ e.xmax < b.xmin \/ e.ymin > b.ymax \/ e.ymax < b.ymin

\* lines 2371-2374: shrink with user options
Shrink(e, b) ==
    [have |-> e.have,
     xmin |-> MAX(e.xmin, b.xmin), ymin |-> MAX(e.ymin, b.ymin),
     xmax |-> MIN(e.xmax, b.xmax), ymax |-> MIN(e.ymax, b.ymax)]

\* the box b in xminl, yminl, xmaxl, ymaxl of a layer
Assign(e, b) ==
    [have |-> e.have, xmin |-> b.xmin, ymin |-> b.ymin,
     xmax |-> b.xmax, ymax |-> b.ymax]

\* lines 2356-2387: xminl .. ymaxl of a layer after the filter loop
LayerBox(e, b) ==
    IF e.have
    THEN IF HaveBox(b)
         THEN IF NoOverlap(e, b) THEN Assign(e, b) ELSE Shrink(e, b)
         ELSE e
    ELSE IF HaveBox(b) THEN Assign(e, b) ELSE e

\* lines 2356-2387: have_filter of a layer
HaveFilter(e, b) == e.have \/ HaveBox(b)

\* lines 2404-2411: the ring of five points
Ring(r) ==
    <<<<r.xmin, r.ymin>>, <<r.xmin, r.ymax>>, <<r.xmax, r.ymax>>,
      <<r.xmax, r.ymin>>, <<r.xmin, r.ymin>>>>

\* lines 2389-2417: poSpatialFilter of a layer, <<>> for NULL
LayerFilter(e, b) ==
    IF HaveFilter(e, b) THEN Ring(LayerBox(e, b)) ELSE <<>>

\* lines 2421-2438: "update xmin, xmax, ymin, ymax if possible", from layer
\* k on; the test "xmin > xmax" compares the two addresses
RECURSIVE UpdateBox(_, _, _)
UpdateBox(b, b0, k) ==
    IF k >= nlayers
    THEN b
    ELSE LET e == LayerBox(LayerExtent(k), b0)
         IN  IF e.have
             THEN IF ptr_gt
                  THEN UpdateBox([xmin |-> e.xmin, ymin |-> e.ymin,
                                  xmax |-> e.xmax, ymax |-> e.ymax], b0, k + 1)
                  ELSE UpdateBox([xmin |-> MIN(e.xmin, b.xmin),
                                  ymin |-> MIN(e.ymin, b.ymin),
                                  xmax |-> MAX(e.xmax, b.xmax),
                                  ymax |-> MAX(e.ymax, b.ymax)], b0, k + 1)
             ELSE UpdateBox(b, b0, k + 1)

\* lines 2293-2313: the reading is reset after each OGR_L_GetExtent
RECURSIVE ResetAfterExtent(_, _)
ResetAfterExtent(ds, k) ==
    IF k >= nlayers
    THEN ds
    ELSE ResetAfterExtent(IF gdal22 THEN GDALDatasetResetReading(ds)
                          ELSE OGR_L_ResetReading(ds, layer_id(k)), k + 1)

\* lines 850-863 of main and create_spatial_filter
CreateSpatialFilter ==
    /\ pc = "spatial"
    /\ Ogr_ds' = ResetAfterExtent(Ogr_ds, 0)
    /\ IF SpatFatal
       THEN /\ pc' = "fatal"
            /\ UNCHANGED <<Ogr_oRing, have_spatial_filter, poSpatialFilter, bbox>>
       ELSE LET b0 == UserBox(NoBox)
                f  == [k \in 1 .. nlayers |-> LayerFilter(LayerExtent(k - 1), b0)]
            IN  /\ Ogr_oRing' = f
                /\ have_spatial_filter' = (\E k \in 1 .. nlayers : f[k] # <<>>)
                /\ poSpatialFilter' = [k \in 1 .. nlayers |-> f[k] # <<>>]
                /\ bbox' = UpdateBox(b0, b0, 0)
                /\ pc' = "filters"
    /\ UNCHANGED <<stream, gdal22, ogr_interleaved_reading, layers, attr_filter,
                   no_clean, typeB, snap, key, attr, rings, dsn_ok, layer_opt,
                   filter_ok, db_err, heap, extent, use_region, spat, cur_wind,
                   ptr_gt, srs, srs_ret, RefVars, EstVars, KeyVars, SplitVars, OGR_iter, layer,
                   cat, n_polygon_boundaries, use_tmp_vect, Out, Map, Tmp,
                   last_op, nmodif, rounds, cleaned, CentrVars, trav>>

\* the rectangles with corners on the grid
Rects ==
    {b \in [xmin : 0 .. MaxCoord, ymin : 0 .. MaxCoord,
            xmax : 0 .. MaxCoord, ymax : 0 .. MaxCoord] : HaveBox(b)}

\* the extents OGR_L_GetExtent can report, and its failure
Extents ==
    {NoExtent} \cup
    {[have |-> TRUE, xmin |-> b.xmin, ymin |-> b.ymin,
      xmax |-> b.xmax, ymax |-> b.ymax] : b \in Rects}

\* the answers of the spatial option: none, squares, one with three
\* answers and one with xmin > xmax
SpatAnswers ==
    {NoSpat, <<"0", "0", "1", "1">>, <<"1", "1", "2", "2">>,
     <<"0", "0", "2", "2">>, <<"1", "1", "1", "1">>, <<"0", "1", "1", "2">>,
     <<"0", "0", "1">>, <<"2", "0", "1", "1">>}

\* the run of main() from the creation of the spatial filters on
InitFilter ==
    /\ stream = <<>>
    /\ gdal22 \in BOOLEAN
    /\ ogr_interleaved_reading = FALSE
    /\ layers \in ImportLists
    /\ no_clean = FALSE
    /\ typeB = FALSE
    /\ snap = -1
    /\ key = "none"
    /\ attr = <<>>
    /\ heap = 0
    /\ srs = [l \in Layers |-> NoSrs]
    /\ srs_ret = 0
    /\ extent \in [Layers -> Extents]
    /\ use_region \in BOOLEAN
    /\ spat \in SpatAnswers
    /\ cur_wind = UnitBox
    /\ ptr_gt \in BOOLEAN
    /\ Ogr_oRing = <<>>
    /\ have_spatial_filter = FALSE
    /\ n_features = <<>>
    /\ ogr_feature_count = 0
    /\ nf_idx = {}
    /\ n_polygons = 0
    /\ est = NoEst
    /\ db_err = NoDbErr
    /\ dsn_ok = TRUE
    /\ layer_opt = [k \in 1 .. Len(layers) |-> LayerName(layers[k])]
    /\ filter_ok = [l \in Layers |-> TRUE]
    /\ rings = 1
    /\ bbox = NoBox
    /\ poSpatialFilter = [k \in 1 .. Len(layers) |-> FALSE]
    /\ attr_filter = FALSE
    /\ Ogr_ds = OpenDs
    /\ OGR_iter = OGR_iterator_init(0, FALSE)
    /\ call = NoCall
    /\ refcall = NoCall
    /\ out = <<>>
    /\ refout = <<>>
    /\ pat = 0
    /\ Ref_ds = OpenDs
    /\ Ref_iter = OGR_iterator_init(0, FALSE)
    /\ pc = "spatial"
    /\ layer = 0
    /\ cat = 0
    /\ n_polygon_boundaries = 0
    /\ use_tmp_vect = FALSE
    /\ Out = "Map"
    /\ Map = NoMap
    /\ Tmp = NoMap
    /\ last_op = "none"
    /\ nmodif = 0
    /\ rounds = 0
    /\ cleaned = FALSE
    /\ ncentr = 0
    /\ centr = 0
    /\ Centr = <<>>
    /\ si = {}
    /\ n_overlaps = 0
    /\ n_nocat = 0
    /\ total_area = NoArea
    /\ overlap_area = NoArea
    /\ nocat_area = NoArea
    /\ pt_ret = <<>>
    /\ area_size = Num(0)
    /\ split_distance = Num(0)
    /\ key_idx = <<>>
    /\ icat = {}
    /\ rcat = {}
    /\ trav = <<>>

NextFilter ==
    \/ CreateSpatialFilter
    \/ MainFilters

SpecFilter == InitFilter /\ [][NextFilter]_vars

\* ------------------------------------------------------------------------
\* cmp_layer_srs
\* ------------------------------------------------------------------------
\* get_layer_proj: 0 on success, 1 without spatial reference, 2 when it
\* cannot be read
get_layer_proj(l) ==
    CASE srs[l].kind = "unconvertible" -> 2
      [] srs[l].kind = "null" -> 1
      [] srs[l].kind = "invalid" -> 2
      [] srs[l].kind = "noproj4" -> 2
      [] OTHER -> 0

\* a variant that takes any two projections for the same
G_compare_projections_Always(a, b) == TRUE

\* G_compare_projections: the keys and units are the same
G_compare_projections(a, b) == a.info = b.info

\* lines 2193-2204: the first layer from k on whose projection is read
RECURSIVE FirstReadable(_)
FirstReadable(k) ==
    IF get_layer_proj(layer_id(k)) = 0 THEN k
    ELSE IF k + 1 < nlayers THEN FirstReadable(k + 1)
    ELSE nlayers

\* lines 2229-2261: the comparison of the layers from k on with the first
RECURSIVE CompareOthers(_)
CompareOthers(k) ==
    IF k >= nlayers THEN 0
    ELSE IF get_layer_proj(layer_id(k)) # 0 THEN 1
    ELSE IF \/ srs[layer_id(0)].proj # srs[layer_id(k)].proj
            \/ ~G_compare_projections(srs[layer_id(0)], srs[layer_id(k)])
    THEN 1
    ELSE CompareOthers(k + 1)

cmp_layer_srs ==
    IF nlayers = 1 THEN 0
    ELSE IF FirstReadable(0) = nlayers THEN 0
    ELSE IF FirstReadable(0) > 0 THEN 1
    ELSE CompareOthers(1)

\* lines 613-618 of main: the projections of the layers are compared
CompareSrs ==
    /\ pc = "srs"
    /\ srs_ret' = cmp_layer_srs
    /\ pc' = IF cmp_layer_srs # 0 THEN "fatal" ELSE "spatial"
    /\ UNCHANGED <<stream, gdal22, ogr_interleaved_reading, layers, attr_filter,
                   no_clean, typeB, snap, key, attr, rings, dsn_ok, layer_opt,
                   filter_ok, db_err, heap, FilterVars, srs, poSpatialFilter,
                   bbox, Ogr_ds, RefVars, EstVars, KeyVars, SplitVars, OGR_iter,
                   layer, cat, n_polygon_boundaries, use_tmp_vect, Out, Map,
                   Tmp, last_op, nmodif, rounds, cleaned, CentrVars, trav>>

\* the spatial references a layer can have
SrsChoices ==
    [kind : {"null", "unconvertible", "invalid", "noproj4"}, proj : {0},
     info : {"xy"}]
    \cup [kind : {"ok"}, proj : {1, 3}, info : {"a", "b"}]

\* the run of main() from the comparison of the projections on
InitSrs ==
    /\ stream \in SeqsUpTo(MainFeatureTypes, MaxFeatMain)
    /\ gdal22 = TRUE
    /\ ogr_interleaved_reading = FALSE
    /\ layers \in ImportLists
    /\ no_clean = FALSE
    /\ typeB = FALSE
    /\ snap = -1
    /\ key = "none"
    /\ attr = [i \in 1 .. Len(stream) |-> [fid |-> i, kv |-> 0]]
    /\ heap = 0
    /\ srs \in [Layers -> SrsChoices]
    /\ srs_ret = 0
    /\ extent = [l \in Layers |-> NoExtent]
    /\ use_region = FALSE
    /\ spat = NoSpat
    /\ cur_wind = UnitBox
    /\ ptr_gt = FALSE
    /\ Ogr_oRing = <<>>
    /\ have_spatial_filter = FALSE
    /\ n_features = <<>>
    /\ ogr_feature_count = 0
    /\ nf_idx = {}
    /\ n_polygons = 0
    /\ est = NoEst
    /\ db_err = NoDbErr
    /\ dsn_ok = TRUE
    /\ layer_opt = [k \in 1 .. Len(layers) |-> LayerName(layers[k])]
    /\ filter_ok = [l \in Layers |-> TRUE]
    /\ rings = 1
    /\ bbox = NoBox
    /\ poSpatialFilter = [k \in 1 .. Len(layers) |-> FALSE]
    /\ attr_filter = FALSE
    /\ Ogr_ds = OpenDs
    /\ OGR_iter = OGR_iterator_init(0, FALSE)
    /\ call = NoCall
    /\ refcall = NoCall
    /\ out = <<>>
    /\ refout = <<>>
    /\ pat = 0
    /\ Ref_ds = OpenDs
    /\ Ref_iter = OGR_iterator_init(0, FALSE)
    /\ pc = "srs"
    /\ layer = 0
    /\ cat = 0
    /\ n_polygon_boundaries = 0
    /\ use_tmp_vect = FALSE
    /\ Out = "Map"
    /\ Map = NoMap
    /\ Tmp = NoMap
    /\ last_op = "none"
    /\ nmodif = 0
    /\ rounds = 0
    /\ cleaned = FALSE
    /\ ncentr = 0
    /\ centr = 0
    /\ Centr = <<>>
    /\ si = {}
    /\ n_overlaps = 0
    /\ n_nocat = 0
    /\ total_area = NoArea
    /\ overlap_area = NoArea
    /\ nocat_area = NoArea
    /\ pt_ret = <<>>
    /\ area_size = Num(0)
    /\ split_distance = Num(0)
    /\ key_idx = <<>>
    /\ icat = {}
    /\ rcat = {}
    /\ trav = <<>>

NextSrs ==
    \/ CompareSrs
    \/ CreateSpatialFilter
    \/ NextSplit

SpecSrs == InitSrs /\ [][NextSrs]_vars

\* the run of main() with a key option
SpecKeys == InitKeys /\ [][Next]_vars

\* the statements of the cleaning block, from snapping to attaching isles
CleaningBlock ==
    \/ CleanSnap \/ CleanBreakPolygons \/ CleanRemoveDuplicates
    \/ LoopBreakLines \/ LoopRemoveDuplicates \/ LoopSmallAngles
    \/ CleanMerge \/ CleanDangles \/ CleanBuildAreas \/ CleanBridges
    \/ CleanBridgesRebuild \/ CleanBuildNone \/ CleanAttachIsles

\* the run with weak fairness: main() is sequential, so inside the cleaning
\* block the next library call is made as soon as the previous one returns
SpecFair == Spec /\ WF_vars(CleaningBlock)

\* ------------------------------------------------------------------------
\* Properties of the import run
\* ------------------------------------------------------------------------
\* the requests to the iterator, cut at the resets
RECURSIVE Segs(_)
Segs(t) ==
    IF t = <<>> THEN << <<>> >>
    ELSE LET rest == Segs(Tail(t))
         IN  IF Head(t) = ResetMark THEN << <<>> >> \o rest
             ELSE << <<Head(t)>> \o Head(rest) >> \o Tail(rest)

\* the traversals: the runs of requests between resets
Traversals(t) == SelectSeq(Segs(t), LAMBDA g : g # <<>>)

\* a request that returned a feature is followed by requests for the same
\* layer until end, and the layers end in the order of the import list
DrainsInOrder(g) ==
    /\ \A j \in 1 .. Len(g) :
          ~g[j].end => (j = Len(g) \/ g[j + 1] = Req(g[j].k, TRUE))
    /\ LET ends == SelectSeq(g, LAMBDA e : e.end)
       IN  \A j \in 1 .. Len(ends) : ends[j].k = j - 1
    /\ \A j \in 1 .. Len(g) :
          ~g[j].end => Len(SelectSeq(SubSeq(g, 1, j), LAMBDA e : e.end)) = g[j].k

\* a traversal that drained every imported layer
Complete(g) == Len(SelectSeq(g, LAMBDA e : e.end)) = nlayers /\ g[Len(g)].end

\* C5: a completed run traverses the layers twice, and three times when the
\* cleaning block ran; each traversal requests the layers in import order
\* and drains each layer to end before the next is requested.
C5_TwoOrThreeTraversals ==
    /\ \A j \in 1 .. Len(Traversals(trav)) : DrainsInOrder(Traversals(trav)[j])
    /\ (pc = "done" =>
          /\ Len(Traversals(trav)) = IF cleaned THEN 3 ELSE 2
          /\ \A j \in 1 .. Len(Traversals(trav)) : Complete(Traversals(trav)[j]))

\* C5 witness: a run with cleaning over two layers that both returned
\* features has completed
C5_Witness ==
    /\ pc = "done"
    /\ cleaned
    /\ nlayers = 2
    /\ Len(Traversals(trav)) = 3
    /\ Len(Traversals(trav)[3]) = 4

\* the order of the Topology Engine operations of the cleaning block
StageOrder(a, b) ==
    \/ a = "none" /\ b = "build_base"
    \/ a = "build_base" /\ b = "snap" /\ snap >= 0
    \/ a = "build_base" /\ b = "break_polygons" /\ snap < 0
    \/ a = "snap" /\ b = "break_polygons"
    \/ a = "break_polygons" /\ b = "remove_duplicates"
    \/ a = "remove_duplicates" /\ b = "break_lines"
    \/ a = "break_lines" /\ b = "loop_remove_duplicates"
    \/ a = "loop_remove_duplicates" /\ b = "clean_small_angles"
    \/ a = "clean_small_angles" /\ b \in {"break_lines", "merge_lines"}
    \/ a = "merge_lines" /\ b \in {"chtype_dangles", "remove_dangles"}
    \/ a \in {"chtype_dangles", "remove_dangles"} /\ b = "build_areas"
    \/ a = "build_areas" /\ b \in {"chtype_bridges", "remove_bridges"}
    \/ a \in {"chtype_bridges", "remove_bridges"}
       /\ b \in {"build_none_bridges", "build_none"}
    \/ a = "build_none_bridges" /\ b = "build_none"
    \/ a = "build_none" /\ b = "attach_isles"

\* the statements after the cleaning stages
AfterStages == {"centr_init", "centr_loop", "reattach", "write_centr"}

\* C6: when the cleaning block runs, the Topology Engine operations come in
\* the fixed order snap (iff snap >= 0), break polygons, remove duplicates,
\* rounds of {break lines, remove duplicates, small angles}, merge, dangles,
\* build areas, bridges, rebuild, attach isles; none is skipped but snap.
C6_StageOrder ==
    /\ [][last_op' # last_op => StageOrder(last_op, last_op')]_vars
    /\ [](cleaned /\ pc \in AfterStages \cup {"close", "done"}
            => last_op = "attach_isles")
    /\ [](~cleaned => last_op \in {"none", "build_base"})

\* C6 witness: the stages were run with snapping and two rounds of the loop
C6_Witness ==
    /\ pc = "centr_init"
    /\ last_op = "attach_isles"
    /\ snap >= 0
    /\ rounds >= 2

\* C7: the small-angles loop runs its body at least once, each iteration
\* calls break lines, remove duplicates, small angles in this order, and it
\* iterates again iff the last small-angles call reported modifications.
C7_LoopUntilNoModification ==
    /\ (pc = "break_lines" =>
          \/ last_op = "remove_duplicates" /\ rounds = 0
          \/ last_op = "clean_small_angles" /\ nmodif > 0 /\ rounds >= 1)
    /\ (pc = "loop_remove_duplicates" => last_op = "break_lines")
    /\ (pc = "small_angles" => last_op = "loop_remove_duplicates")
    /\ (last_op = "clean_small_angles" => pc \in {"break_lines", "merge"})
    /\ (pc = "merge" =>
          last_op = "clean_small_angles" /\ nmodif = 0 /\ rounds >= 1)

\* C7 witness: the loop is left after more than one iteration
C7_Witness ==
    /\ pc = "merge"
    /\ rounds >= 2
    /\ nmodif = 0

\* C8: the small-angles loop ends on every run: once entered, the merge
\* stage is reached, also when the Topology Engine keeps reporting
\* modifications.
C8_LoopEnds == (pc = "break_lines") ~> (pc = "merge")

\* the features of the imported layers that have a geometry
ImportedGeoms ==
    {i \in 1 .. Len(stream) :
        stream[i].geom # "none" /\ \E k \in 1 .. nlayers : layers[k] = stream[i].layer}

ResetCount(t) == Len(SelectSeq(t, LAMBDA e : e = ResetMark))

\* C9: with the no-clean flag no temporary map is opened, the geometries are
\* written to the output map, no cleaning stage runs, no centroid record is
\* made and there is no reattachment traversal.
C9_NoCleanWritesDirectly ==
    no_clean =>
        /\ Tmp = NoMap
        /\ Out = "Map"
        /\ last_op = "none"
        /\ ~cleaned
        /\ Centr = <<>> /\ si = {} /\ pt_ret = <<>>
        /\ ResetCount(trav) <= 2
        /\ Len(Traversals(trav)) <= 2
        /\ (pc = "done" =>
              {Map.lines[j].feat : j \in 1 .. Len(Map.lines)} = ImportedGeoms)

\* C9 witness: a run with the no-clean flag that imported a polygon is done
C9_Witness ==
    /\ no_clean
    /\ pc = "done"
    /\ NumBoundaries(Map) > 0

\* the areas whose record was made
Made == IF pc = "centr_loop" THEN 1 .. (centr - 1) ELSE 1 .. ncentr

\* C10: after cleaning there is one record for each area 1..ncentr; it is
\* valid iff a point was found for the area; the spatial index holds the
\* valid records, each under the box of its point; a failure for one area
\* does not keep the next areas from being processed.
C10_OneRecordPerArea ==
    pc \in AfterStages \ {"centr_init"} =>
        /\ DOMAIN Centr = 0 .. ncentr
        /\ Len(pt_ret) = Cardinality(Made)
        /\ (pc # "centr_loop" => Made = 1 .. ncentr)
        /\ \A c \in Made :
              /\ Centr[c].valid = 1 <=> pt_ret[c].ret >= 0
              /\ Centr[c].valid = 1 =>
                    Centr[c].x = pt_ret[c].pt[1] /\ Centr[c].y = pt_ret[c].pt[2]
        /\ si = {[id |-> c,
                  box |-> [N |-> Centr[c].y, S |-> Centr[c].y,
                           E |-> Centr[c].x, W |-> Centr[c].x,
                           T |-> 0, B |-> 0]] :
                    c \in {d \in Made : Centr[d].valid = 1}}

\* C10 witness: no point was found for area 1, area 2 got a valid record
C10_Witness ==
    /\ pc = "reattach"
    /\ ncentr = 2
    /\ Centr[1].valid = 0
    /\ Centr[2].valid = 1

\* the areas with a valid record
ValidRecords == {c \in 1 .. ncentr : Centr[c].valid = 1}

\* the areas for which Vect_get_point_in_area failed
FailedAreas == {c \in 1 .. Len(pt_ret) : pt_ret[c].ret < 0}

\* the reattachment pass is over
AfterReattach == cleaned /\ pc \in {"write_centr", "close", "done"}

\* C11: after the reattachment pass there is a record for each of the
\* ncentr areas, and the valid ones are the areas for which a point was
\* found: their number is ncentr less the failed point computations.
C11_ValidCountLessFailures ==
    AfterReattach =>
        /\ DOMAIN Centr \ {0} = 1 .. ncentr
        /\ Cardinality(ValidRecords) = ncentr - Cardinality(FailedAreas)
        /\ Cardinality(ValidRecords) <= ncentr

\* C11 witness: of two areas one has no point, so one record is valid
C11_Witness ==
    /\ AfterReattach
    /\ ncentr = 2
    /\ Cardinality(ValidRecords) = 1
    /\ Cardinality(FailedAreas) = 1

\* C11 as stated: after the reattachment pass the number of valid records
\* equals the number of areas.
C11_ValidCountEqualsAreaCount ==
    AfterReattach => Cardinality(ValidRecords) = ncentr

\* the centroids written by the loop over the records
Written == SelectSeq(Tmp.lines, LAMBDA e : e.type = "centroid" /\ e.feat = NULL)

\* the records the loop over the records has dealt with
Dealt ==
    IF pc = "write_centr" THEN centr - 1
    ELSE IF cleaned /\ pc \in {"close", "done"} THEN ncentr ELSE 0

\* the centroid of a record
CentroidOf(rec) ==
    [type |-> "centroid", field |-> 0, cat |-> 0, feat |-> NULL,
     x |-> rec.x, y |-> rec.y, cats |-> rec.cats]

\* the centroids of the first n records that are valid and have a category
RECURSIVE WithCats(_)
WithCats(n) ==
    IF n = 0 THEN <<>>
    ELSE WithCats(n - 1)
         \o (IF Centr[n].valid = 1 /\ Centr[n].cats # <<>>
             THEN <<CentroidOf(Centr[n])>> ELSE <<>>)

\* C12: one centroid is written for each valid record that has at least one
\* category, at the record's point and with the record's categories; none is
\* written for an invalid record nor for a valid record without categories,
\* which is counted in n_nocat instead.
C12_OneCentroidPerRecordWithCats ==
    Dealt > 0 =>
        /\ Written = WithCats(Dealt)
        /\ n_nocat = Cardinality({c \in 1 .. Dealt :
                                     Centr[c].valid = 1 /\ Centr[c].cats = <<>>})

\* C12 witness: of two valid records one got a category and was written,
\* the other got none and was not
C12_Witness ==
    /\ cleaned /\ pc = "close"
    /\ ncentr = 2
    /\ Cardinality(ValidRecords) = 2
    /\ Len(Written) = 1
    /\ n_nocat = 1

\* C12 as stated: one centroid is written for each valid record, whatever
\* the number of its categories.
C12_OneCentroidPerValidRecord ==
    cleaned /\ pc \in {"close", "done"} => Len(Written) = Cardinality(ValidRecords)

\* the categories the reattachment pass gave to a record
Accumulated(rec) == SelectSeq(rec.cats, LAMBDA fc : fc[1] <= nlayers)

\* the categories of a record in the field after the layers' fields
Synthetic(rec) == SelectSeq(rec.cats, LAMBDA fc : fc[1] = nlayers + 1)

\* the valid records dealt with that got more than one category
Overlapping ==
    {c \in 1 .. Dealt : Centr[c].valid = 1 /\ Len(Accumulated(Centr[c])) > 1}

\* C13: a valid record with k > 1 categories is written with these k
\* categories followed by category k in field nlayers + 1, and is counted
\* once in n_overlaps; a record with k <= 1 has no category in that field.
C13_OverlapCountInSyntheticField ==
    Dealt > 0 =>
        /\ \A c \in 1 .. Dealt :
              LET acc == Accumulated(Centr[c])
              IN  IF Centr[c].valid = 1 /\ Len(acc) > 1
                  THEN /\ Centr[c].cats = Append(acc, <<nlayers + 1, Len(acc)>>)
                       /\ \E j \in 1 .. Len(Written) :
                             Written[j] = CentroidOf(Centr[c])
                  ELSE Synthetic(Centr[c]) = <<>>
        /\ n_overlaps = Cardinality(Overlapping)

\* C13 witness: two polygons were attached to the same area, whose centroid
\* was written with the count 2 in the field after the layers' fields
C13_Witness ==
    /\ cleaned /\ pc = "close"
    /\ n_overlaps = 1
    /\ \E j \in 1 .. Len(Written) :
          /\ Len(Written[j].cats) = 3
          /\ Written[j].cats[3] = <<nlayers + 1, 2>>

\* C14: the category the reattachment pass hands to centroid() for a feature
\* is the category of the row the import pass inserted for this feature,
\* whatever the key option.
C14_SameCategoryBothPasses ==
    \A r \in rcat : \A i \in icat :
        (i.feat = r.feat /\ stream[r.feat].geom # "none") => i.cat = r.cat

\* the number of a feature among the features of its layer, in stream order
Ordinal(f) == Cardinality({i \in 1 .. f : stream[i].layer = stream[f].layer})

\* C15: without key option the k-th feature of a layer gets category k in
\* the import pass and in the reattachment pass, features without geometry
\* counted, the count starting at 1 in each layer.
C15_CounterPerLayer ==
    key = "none" =>
        /\ \A e \in icat : e.cat = Ordinal(e.feat)
        /\ \A e \in rcat : e.cat = Ordinal(e.feat)

\* C15 witness: a layer whose first feature has no geometry and whose second
\* is a polygon was read in both passes
C15_Witness ==
    /\ key = "none"
    /\ pc = "done"
    /\ Len(stream) = 2
    /\ stream[1].layer = stream[2].layer
    /\ stream[1].geom = "none"
    /\ stream[2].geom = "polygon"
    /\ [feat |-> 2, cat |-> 2] \in icat
    /\ [feat |-> 2, cat |-> 2] \in rcat
    /\ [feat |-> 1, cat |-> 1] \in rcat


\* ------------------------------------------------------------------------
\* the boundary splitting distance
\* ------------------------------------------------------------------------
\* the census is over and the distance calibrated
Calibrated == pc \notin {"idle", "filters", "census"}

\* the selection box has positive width and height
PositiveBox == bbox.xmin < bbox.xmax /\ bbox.ymin < bbox.ymax

\* C16 (as the code has it): after the calibration, with
\* n_polygon_boundaries <= 50 the split distance is not positive: it is -1
\* without cleaning or for a box without width or height, and 0 otherwise
C16_NoSplitUpTo50 ==
    Calibrated /\ n_polygon_boundaries <= 50
        => split_distance = IF no_clean \/ ~PositiveBox THEN Num(-1) ELSE Num(0)

\* cleaning, a box of positive size and one polygon of 50 rings: distance 0
C16_Witness ==
    /\ Calibrated
    /\ n_polygon_boundaries = 50
    /\ ~no_clean
    /\ PositiveBox
    /\ split_distance = Num(0)

\* C16 (as stated): after the calibration, with n_polygon_boundaries <= 50
\* the split distance is -1 whatever the no-clean flag and the box
C16_MinusOneUpTo50 ==
    Calibrated /\ n_polygon_boundaries <= 50 => split_distance = Num(-1)

\* every imported layer was drained by the census
CensusDrained ==
    \A k \in 0 .. (nlayers - 1) : \E i \in 1 .. Len(trav) : trav[i] = Req(k, TRUE)

\* no primitive was written to either map
NothingWritten == Map.lines = <<>> /\ Tmp.lines = <<>>

\* C17: with cleaning, a box of positive width and height and
\* n_polygon_boundaries > 50 the split distance is
\* sqrt(box area) / log(n_polygon_boundaries) / 16; after the filters were
\* set it is assigned once, when the census has drained all layers and
\* nothing was written yet
C17_SplitDistanceFormula ==
    [][/\ (Calibrated' /\ ~no_clean /\ PositiveBox /\ n_polygon_boundaries' > 50
              => split_distance'
                    = Div(Div(Sqrt((bbox.xmax - bbox.xmin) * (bbox.ymax - bbox.ymin)),
                              Log(n_polygon_boundaries')),
                          Num(16)))
       /\ (split_distance' # split_distance /\ pc # "filters"
              => /\ pc = "census" /\ pc' = "open"
                 /\ layer = nlayers
                 /\ CensusDrained
                 /\ NothingWritten)
       /\ (Calibrated /\ Calibrated' => split_distance' = split_distance)]_vars

\* two polygons of 51 rings in a box of area 4, and boundaries written
C17_Witness ==
    /\ n_polygon_boundaries = 102
    /\ split_distance = Div(Div(Sqrt(4), Log(102)), Num(16))
    /\ NumBoundaries(Tmp) > 0


\* ------------------------------------------------------------------------
\* the errors before the census
\* ------------------------------------------------------------------------
\* ogr_getnextfeature was called, or the iterator set up for it
AnyFetch == trav # <<>> \/ OGR_iter # OGR_iterator_init(0, FALSE)

\* every name of the layer option is the name of an available layer
NamesFound ==
    \A i \in 1 .. Len(layer_opt) : \E j \in Layers : LayerName(j) = layer_opt[i]

\* every imported layer accepts the where clause
AcceptedByAll == attr_filter => \A k \in 1 .. nlayers : filter_ok[layers[k]]

\* C18: no feature is fetched through the iterator unless the data source
\* was opened, every name of the layer option was found and every imported
\* layer accepted the attribute filter; a run one of them ends has fetched
\* nothing
C18_NoFetchBeforeChecks ==
    /\ pc \notin {"open_ds", "fatal"} => dsn_ok /\ Ogr_ds # NoDs
    /\ pc \notin {"open_ds", "layers", "fatal"} => NamesFound
    /\ AnyFetch \/ pc \notin {"open_ds", "layers", "filters", "fatal"}
          => dsn_ok /\ NamesFound /\ AcceptedByAll
    /\ ~dsn_ok \/ ~NamesFound \/ (pc \notin {"open_ds", "layers"} /\ ~AcceptedByAll)
          => ~AnyFetch /\ pc \in {"open_ds", "layers", "filters", "fatal"}
    /\ pc = "fatal" => ~AnyFetch

\* a feature was fetched from a layer asked for by name, with a where clause
\* that a layer which is not imported rejects
C18_Witness ==
    /\ \E i \in 1 .. Len(trav) : ~trav[i].end
    /\ layer_opt # <<>>
    /\ attr_filter
    /\ \E l \in Layers : ~filter_ok[l]


\* ------------------------------------------------------------------------
\* fatal errors after the output map was created
\* ------------------------------------------------------------------------
\* C19: when G_fatal_error ends the run after the output map was created,
\* no output map is left open or closed in the mapset, and no temporary
\* map either
C19_NoPartialOutputAfterFatal ==
    pc = "fatal"
        => /\ Map.state \notin {"open", "closed"}
           /\ Tmp.state \notin {"open", "closed"}


\* ------------------------------------------------------------------------
\* the test for topological errors at the end of the run
\* ------------------------------------------------------------------------
\* the centroids of the final map
FinalCentroids == NumCentroids(Map)

\* the run imported polygons and the counts differ, or polygons overlap
Inconsistent == n_polygons > 0 /\ (FinalCentroids # n_polygons \/ n_overlaps > 0)

\* the messages that advise what to do
Guidance ==
    {"could_snap", "try_min_snap", "try_snap_times_10", "manual", "snap_too_large"}

\* C20 (as the code has it): at the end of a run that imported polygons
\* from a single layer, when the counts differ or polygons overlap, guidance
\* is reported, and the interval [min_snap, max_snap] with it unless
\* polygons overlap and snap is not below max_snap; with several layers or
\* without polygons nothing is reported; the run goes on to its end
C20_EstimatorSingleLayer ==
    [][pc = "close"
          => /\ pc' = "done"
             /\ (Inconsistent' /\ nlayers = 1
                    => /\ est'.msgs \cap Guidance # {}
                       /\ est'.min_snap < est'.max_snap
                       /\ ("range" \in est'.msgs
                              <=> ~(n_overlaps' > 0 /\ snap >= est'.max_snap)))
             /\ (nlayers # 1 \/ ~Inconsistent' => est'.msgs = {})]_vars

\* a single layer, overlapping polygons, snap at max_snap: guidance without
\* the interval
C20_Witness ==
    /\ pc = "done"
    /\ nlayers = 1
    /\ n_overlaps > 0
    /\ est.msgs = {"separator", "overlapping", "need_cleaning", "manual"}

\* C20 (as stated): at the end of every run that imported polygons, when
\* the counts differ or polygons overlap, the interval and guidance are
\* reported, whatever the number of layers and the snap value
C20_EstimatorAlways ==
    pc = "done" /\ Inconsistent
        => "range" \in est.msgs /\ est.msgs \cap Guidance # {}


\* ------------------------------------------------------------------------
\* dangles and bridges
\* ------------------------------------------------------------------------
\* the operations that change boundaries to lines, and those that remove
ConvertOps == {"chtype_dangles", "chtype_bridges"}

RemoveOps == {"remove_dangles", "remove_bridges"}

\* C21: the dangles stage and the bridges stage each invoke exactly one
\* operation, the converting one when the type option includes boundary and
\* the removing one otherwise: both stages are in the same mode
C21_DanglesAndBridgesSameMode ==
    [][/\ (pc = "dangles"
              => /\ last_op' \in {"chtype_dangles", "remove_dangles"}
                 /\ (last_op' \in ConvertOps <=> typeB)
                 /\ (last_op' \in RemoveOps <=> ~typeB))
       /\ (pc = "bridges"
              => /\ last_op' \in {"chtype_bridges", "remove_bridges"}
                 /\ (last_op' \in ConvertOps <=> typeB)
                 /\ (last_op' \in RemoveOps <=> ~typeB))
       /\ (last_op' \in ConvertOps \cup RemoveOps /\ last_op' # last_op
              => pc \in {"dangles", "bridges"})]_vars

\* lines were imported as boundaries and the bridges changed back to lines
C21_Witness ==
    /\ typeB
    /\ last_op = "chtype_bridges"
    /\ pc \in {"bridges_rebuild", "build_none"}


\* ------------------------------------------------------------------------
\* the key of the attribute rows
\* ------------------------------------------------------------------------
\* the value of the designated key of feature f
KeyValue(f) == IF key = "field" THEN OGR_F_GetFieldAsInteger(f) ELSE OGR_F_GetFID(f)

\* C22: with a key option, the key written into the attribute row of each
\* feature is the value of its key field (or its FID), also for a feature
\* without geometry
C22_RowKeyIsKeyValue ==
    key # "none" => \A e \in icat : e.cat = KeyValue(e.feat)


\* ------------------------------------------------------------------------
\* the order of the phases
\* ------------------------------------------------------------------------
\* the n-th traversal has drained every imported layer
PassDone(n) ==
    /\ Len(Traversals(trav)) >= n
    /\ Complete(Traversals(trav)[n])

\* the n-th traversal is the one going on, or the last one made
InPass(n) == Len(Traversals(trav)) <= n

C24_TmpUsedOnlyIfOpen ==
    [][/\ (last_op' # last_op => Tmp.state = "open" /\ Tmp'.state = "open")
       /\ (pc # "open" /\ Tmp' # Tmp => Tmp.state = "open")
       /\ (Out = "Tmp" /\ pc \notin {"filters", "census", "open"}
              => Tmp.state = "open")
       /\ (pc = "close" /\ use_tmp_vect => Tmp.state = "open")
       /\ (pc' \in {"snap", "centr_init", "write_centr"} => Tmp'.state = "open")
       /\ (Tmp'.state # "none" => ~no_clean /\ n_polygon_boundaries' > 0)]_vars

\* the no-clean flag with polygons in the input: the temporary map is never
\* opened and the run ends
C24_Witness ==
    /\ pc = "done"
    /\ no_clean
    /\ \E f \in 1 .. Len(stream) : stream[f].geom = "polygon"
    /\ Tmp.state = "none"
    /\ NumBoundaries(Map) > 0


\* ------------------------------------------------------------------------
\* the statistics of the centroids
\* ------------------------------------------------------------------------
\* the valid records by the number of categories the reattachment gave them
Uncovered == {c \in ValidRecords : Len(Accumulated(Centr[c])) = 0}

Single == {c \in ValidRecords : Len(Accumulated(Centr[c])) = 1}

Several == {c \in ValidRecords : Len(Accumulated(Centr[c])) > 1}

\* the areas a sum was made of
Summands(sum) == {sum[j] : j \in 1 .. Len(sum)}

\* C25: after the centroids were written, n_nocat counts the valid records
\* without category and n_overlaps those with more than one, the centroids
\* written are the valid records less n_nocat (the single ones and the
\* overlaps), an invalid record is in none of the counts, and the size of
\* every area, that of an invalid record too, is once in the total area
C25_CountersPartitionValidRecords ==
    cleaned /\ pc \in {"close", "done"} =>
        /\ n_nocat = Cardinality(Uncovered)
        /\ n_overlaps = Cardinality(Several)
        /\ Cardinality(ValidRecords) = n_nocat + Cardinality(Single) + n_overlaps
        /\ Len(Written) = Cardinality(ValidRecords) - n_nocat
        /\ total_area = [c \in 1 .. ncentr |-> c]
        /\ Summands(nocat_area) = Uncovered /\ Len(nocat_area) = n_nocat
        /\ Summands(overlap_area) = Several /\ Len(overlap_area) = n_overlaps
        /\ \A c \in (1 .. ncentr) \ ValidRecords :
              c \notin Summands(nocat_area) \cup Summands(overlap_area)

\* of two areas one has an invalid record, the other a valid record with
\* several categories
C25_Witness ==
    /\ cleaned /\ pc = "close"
    /\ ncentr = 2
    /\ Cardinality(ValidRecords) = 1
    /\ n_overlaps = 1
    /\ Len(total_area) = 2
    /\ Len(overlap_area) = 1


\* ------------------------------------------------------------------------
\* the array of feature counts
\* ------------------------------------------------------------------------
\* C26: n_features has nlayers entries, and every read and write of it is
\* at an index in 0 .. nlayers - 1, whatever layers are imported
C26_FeatureCountIndexInRange ==
    nf_idx \subseteq 0 .. (nlayers - 1)


\* ------------------------------------------------------------------------
\* the spatial filters
\* ------------------------------------------------------------------------
\* create_spatial_filter has returned
FilterDone == pc \in {"filters", "census"} /\ Len(Ogr_oRing) = nlayers

\* the imported layers that report an extent
WithExtent == {k \in 0 .. (nlayers - 1) : LayerExtent(k).have}

\* the user box: the region with the region flag, the four answers with the
\* spatial option
GivenBox ==
    IF use_region
    THEN cur_wind
    ELSE [xmin |-> atof(spat[1]), ymin |-> atof(spat[2]),
          xmax |-> atof(spat[3]), ymax |-> atof(spat[4])]

\* the smallest box that covers the boxes of S
Cover(S) ==
    [xmin |-> Min({b.xmin : b \in S}), ymin |-> Min({b.ymin : b \in S}),
     xmax |-> -Min({-b.xmax : b \in S}), ymax |-> -Min({-b.ymax : b \in S})]

\* the rectangle of a ring
RingBox(r) ==
    [xmin |-> r[1][1], ymin |-> r[1][2], xmax |-> r[3][1], ymax |-> r[3][2]]

\* the extent of a layer as a box
ExtentBox(k) ==
    [xmin |-> LayerExtent(k).xmin, ymin |-> LayerExtent(k).ymin,
     xmax |-> LayerExtent(k).xmax, ymax |-> LayerExtent(k).ymax]

\* C27: without region flag and spatial option the box xmin, ymin, xmax, ymax
\* is, after create_spatial_filter, the union of the extents of the imported
\* layers that report one; with a user box it is the user box expanded to
\* cover the filter extents of those layers
C27_SelectionBoxIsUnion ==
    FilterDone /\ WithExtent # {} =>
        IF ~use_region /\ spat = NoSpat
        THEN bbox = Cover({ExtentBox(k) : k \in WithExtent})
        ELSE bbox = Cover({GivenBox} \cup
                          {RingBox(Ogr_oRing[k + 1]) : k \in WithExtent})

\* the rectangle the layer k is to get as filter, <<>> for none
FilterRectangle(k) ==
    LET e == LayerExtent(k)
        user == use_region \/ spat # NoSpat
    IN  IF user
        THEN IF e.have /\ ~( \/ e.xmin > GivenBox.xmax \/ GivenBox.xmin > e.xmax
                             \/ e.ymin > GivenBox.ymax \/ GivenBox.ymin > e.ymax)
             THEN Ring(Cover({[xmin |-> x, ymin |-> y, xmax |-> x, ymax |-> y] :
                     x \in {v \in 0 .. MaxCoord :
                              /\ e.xmin <= v /\ v <= e.xmax
                              /\ GivenBox.xmin <= v /\ v <= GivenBox.xmax},
                     y \in {v \in 0 .. MaxCoord :
                              /\ e.ymin <= v /\ v <= e.ymax
                              /\ GivenBox.ymin <= v /\ v <= GivenBox.ymax}}))
             ELSE Ring(GivenBox)
        ELSE IF e.have THEN Ring(ExtentBox(k)) ELSE <<>>

\* C28: each imported layer gets as filter the intersection of user box and
\* layer extent when both exist and overlap, the user box when the extent is
\* unknown or does not overlap it, its own extent without a user box, and no
\* filter when there is neither; 1 is returned iff some layer got a filter
C28_LayerFilterRectangles ==
    FilterDone =>
        /\ \A k \in 0 .. (nlayers - 1) : Ogr_oRing[k + 1] = FilterRectangle(k)
        /\ have_spatial_filter = (\E k \in 1 .. nlayers : Ogr_oRing[k] # <<>>)
        /\ have_spatial_filter = (\E k \in 1 .. nlayers : poSpatialFilter[k])

\* two layers: one got the intersection, which is smaller than both the user
\* box and the extent, the other the user box for it does not overlap
C28_Witness ==
    /\ FilterDone
    /\ nlayers = 2
    /\ spat # NoSpat
    /\ \E k \in 0 .. 1 :
          /\ LayerExtent(k).have
          /\ Ogr_oRing[k + 1] # Ring(GivenBox)
          /\ Ogr_oRing[k + 1] # Ring(ExtentBox(k))
    /\ \E k \in 0 .. 1 :
          /\ LayerExtent(k).have
          /\ Ogr_oRing[k + 1] = Ring(GivenBox)
          /\ NoOverlap(LayerExtent(k), GivenBox)


\* ------------------------------------------------------------------------
\* the iterator after the end of a layer
\* ------------------------------------------------------------------------
\* the call c returned the end of its layer
AtEnd(c) == c.made /\ c.ret = NULL

\* the call d follows the call c for the same layer, returns the end, and
\* leaves the data source, its cursors and filters, as it was
StaysAtEnd(c, d, ds, nds) ==
    AtEnd(c) /\ d.made /\ d.layer = c.layer =>
        /\ d.ret = NULL
        /\ ~d.switched
        /\ d.nfetch = 0
        /\ d.log = <<>>
        /\ nds = ds

\* C29: after ogr_getnextfeature has returned the end of a layer, every call
\* for the same layer returns the end and neither reads nor changes a cursor
\* or a filter, until OGR_iterator_reset or the request of another layer;
\* and no call reads a feature from a layer handle that is NULL
C29_EndIsSticky ==
    [][/\ StaysAtEnd(call, call', Ogr_ds, Ogr_ds')
       /\ StaysAtEnd(refcall, refcall', Ref_ds, Ref_ds')
       /\ NOLAYER \notin call'.handles
       /\ NOLAYER \notin refcall'.handles]_vars

\* a second call for a layer that has features was made after its end, in
\* both modes, and nothing was read
C29_Witness ==
    /\ AtEnd(call) /\ ~call.switched /\ call.nfetch = 0
    /\ AtEnd(refcall) /\ ~refcall.switched /\ refcall.nfetch = 0
    /\ out # <<>>
    /\ refout # <<>>
    /\ OGR_iter.Ogr_layer = NOLAYER
    /\ Ref_iter.Ogr_layer = NOLAYER


\* ------------------------------------------------------------------------
\* the projections of the layers
\* ------------------------------------------------------------------------
\* the projection of the k-th imported layer can be read
Readable(k) == srs[layer_id(k)].kind = "ok"

\* the projections of two imported layers are equal
EqualSrs(j, k) ==
    /\ srs[layer_id(j)].proj = srs[layer_id(k)].proj
    /\ srs[layer_id(j)].info = srs[layer_id(k)].info

\* cmp_layer_srs has returned
Compared == pc # "srs"

\* no feature was fetched and nothing was written
NothingImported ==
    /\ trav = <<>>
    /\ Map = NoMap
    /\ Tmp = NoMap
    /\ OGR_iter = OGR_iterator_init(0, FALSE)

\* C30: cmp_layer_srs returns 0 iff there is one layer, or no layer has a
\* readable projection, or every layer has a readable projection equal to
\* that of the first layer, and 1 otherwise; when it returns 1, main aborts
\* before any feature is imported
C30_SameProjectionOrAbort ==
    Compared =>
        /\ srs_ret \in {0, 1}
        /\ srs_ret = 0 <=>
              \/ nlayers = 1
              \/ \A k \in 0 .. (nlayers - 1) : ~Readable(k)
              \/ \A k \in 0 .. (nlayers - 1) : Readable(k) /\ EqualSrs(k, 0)
        /\ srs_ret = 1 => pc = "fatal" /\ NothingImported

\* two layers of different readable projections were refused
C30_Witness ==
    /\ Compared
    /\ nlayers = 2
    /\ Readable(0) /\ Readable(1) /\ ~EqualSrs(0, 1)
    /\ srs[layer_id(0)].proj = srs[layer_id(1)].proj
    /\ stream # <<>>
    /\ srs_ret = 1
    /\ pc = "fatal"

====
